---------------------------- MODULE Spec2Model ----------------------------
(***************************************************************************)
(* A model of the user-directory server: the request validator, the        *)
(* enrichment client (GeolocationService), the record store adapter        *)
(* (UserRepository over the realtime document store), the orchestrator    *)
(* (UserService), the controller and the error normalizer (errorHandler).  *)
(*                                                                         *)
(* JavaScript strings are TLA+ strings (TLC evaluates Len, SubSeq and \o   *)
(* on them), JavaScript objects are functions whose DOMAIN is the set of   *)
(* keys present, and every await of a request is one step of the model.    *)
(***************************************************************************)
EXTENDS Integers, Sequences, FiniteSets, TLC

(***************************************************************************)
(* Bounds of the model.                                                    *)
(***************************************************************************)
\* Requests of a run; NumConc of them run concurrently with every operation
\* open to them, all of them when the run only creates and lists.
NumReq == 3

NumConc == 2

\* Mutations the client runs when they may overlap.
NumMut == 2

(***************************************************************************)
(* Strings.                                                                *)
(***************************************************************************)
CharAt(s, i) == SubSeq(s, i, i)

Digits == {"0", "1", "2", "3", "4", "5", "6", "7", "8", "9"}

\* The characters the regular-expression class \s and trim() treat as blank.
Whitespace == {" ", "\t", "\n"}

UpperLetters == "ABCDEFGHIJKLMNOPQRSTUVWXYZ"

LowerLetters == "abcdefghijklmnopqrstuvwxyz"

IsLetter(c) ==
    \E i \in 1..26 : CharAt(UpperLetters, i) = c \/ CharAt(LowerLetters, i) = c

\* Each upper-case letter's lower-case letter.
LowerOf ==
    [c \in {CharAt(UpperLetters, i) : i \in 1..26} |->
        CharAt(LowerLetters, CHOOSE i \in 1..26 : CharAt(UpperLetters, i) = c)]

LowerChar(c) == IF c \in DOMAIN LowerOf THEN LowerOf[c] ELSE c

RECURSIVE ToLower(_)
ToLower(s) ==
    IF Len(s) = 0 THEN ""
    ELSE LowerChar(CharAt(s, 1)) \o ToLower(SubSeq(s, 2, Len(s)))

\* String.prototype.includes: p occurs in s as a substring.
Includes(s, p) ==
    \E i \in 1..(Len(s) - Len(p) + 1) : SubSeq(s, i, i + Len(p) - 1) = p

\* A case-insensitive regular expression that is a plain word: /p/i.test(s).
TestIgnoreCase(s, p) == Includes(ToLower(s), p)

RECURSIVE TrimStart(_)
TrimStart(s) ==
    IF Len(s) > 0 /\ CharAt(s, 1) \in Whitespace
    THEN TrimStart(SubSeq(s, 2, Len(s)))
    ELSE s

RECURSIVE TrimEnd(_)
TrimEnd(s) ==
    IF Len(s) > 0 /\ CharAt(s, Len(s)) \in Whitespace
    THEN TrimEnd(SubSeq(s, 1, Len(s) - 1))
    ELSE s

\* String.prototype.trim.
Trim(s) == TrimEnd(TrimStart(s))

(***************************************************************************)
(* JavaScript objects: functions from the keys present to their values.    *)
(***************************************************************************)
EmptyObj == [k \in {} |-> ""]

Has(o, k) == k \in DOMAIN o

\* { ...a, ...b }: the keys of both, b's value where both have the key.
Merge(a, b) ==
    [k \in (DOMAIN a) \cup (DOMAIN b) |-> IF k \in DOMAIN b THEN b[k] ELSE a[k]]

(***************************************************************************)
(* GeolocationService: the enrichment client.                              *)
(***************************************************************************)
\* /^\d{5}$/.test(zipCode)
ZipPattern(z) == Len(z) = 5 /\ \A i \in 1..5 : CharAt(z, i) \in Digits

\* isValidZipCode of a value that may be absent: test() stringifies undefined.
isValidZipCode(zipCode) == ZipPattern(zipCode)

Abs(n) == IF n < 0 THEN -n ELSE n

\* A label that rounds to the nearest hour.
formatTimezoneOffsetRounded(seconds) ==
    LET hours == (Abs(seconds) + 1800) \div 3600
        sign == IF seconds >= 0 THEN "+" ELSE "-"
    IN  "UTC" \o sign \o ToString(hours)

\* The guard `!offset && offset !== 0` lets every integer through: only an
\* absent or non-numeric offset is answered 'UTC'.
formatTimezoneOffset(seconds) ==
    LET hours == Abs(seconds) \div 3600
        sign == IF seconds >= 0 THEN "+" ELSE "-"
    IN  "UTC" \o sign \o ToString(hours)


\* JavaScript's null.
Null == [js |-> "null"]

\* new Error(message): name is inherited from Error.prototype.
NewError(message) == [name |-> "Error", message |-> message]

\* error.statusCode = code
Tagged(error, code) == Merge(error, [statusCode |-> code])

\* `if (error.statusCode)`: present and not 0.
HasStatusCode(error) == Has(error, "statusCode") /\ error.statusCode # 0

(***************************************************************************)
(* The provider behind axios.get: what one request for a zip can end in.   *)
(* A success carries response.data; a failure carries either a response    *)
(* (its status and body), or the code and message of a transport error.    *)
(***************************************************************************)
Payload(lat, lon, tz, name) ==
    [coord |-> [lat |-> lat, lon |-> lon], timezone |-> tz, name |-> name,
     sys |-> [country |-> "US"], weather |-> <<[description |-> "clear sky"]>>]

\* The provider's data for a zip code (degrees times 10000); it may change
\* between two requests (daylight saving time, a renamed place).
ProviderPayloads(zip) ==
    IF zip = "12345"
    THEN {Payload(407128, -740060, -18000, "New York"),
          Payload(407306, -739352, -14400, "Brooklyn")}
    ELSE IF zip = "90210"
    THEN {Payload(340522, -1182437, -28800, "Los Angeles"),
          Payload(340901, -1184065, -25200, "Beverly Hills")}
    ELSE {}

\* Failures with an upstream response: error.response = {status, data}; one
\* of them carries the timeout code as well.
StatusFaults ==
    {[kind |-> "response", status |-> 404, data |-> [message |-> "city not found"]],
     [kind |-> "response", status |-> 429, data |-> EmptyObj,
      code |-> "ECONNABORTED", message |-> "timeout of 5000ms exceeded"],
     [kind |-> "response", status |-> 401, data |-> [message |-> "Invalid API key"]],
     [kind |-> "response", status |-> 429, data |-> EmptyObj],
     [kind |-> "response", status |-> 500, data |-> EmptyObj],
     [kind |-> "response", status |-> 502, data |-> [message |-> "bad gateway"]]}

\* Failures without a response: error.code and error.message of axios.
TransportFaults ==
    {[kind |-> "transport", code |-> "ECONNABORTED",
      message |-> "timeout of 5000ms exceeded"],
     [kind |-> "transport", code |-> "ECONNREFUSED",
      message |-> "connect ECONNREFUSED"],
     [kind |-> "transport", code |-> "ERR_NETWORK", message |-> "Network Error"],
     [kind |-> "transport", code |-> "", message |-> "API Error"]}

\* The try block of fetchLocationData after a successful response.
LocationData(data) ==
    [latitude |-> data.coord.lat,
     longitude |-> data.coord.lon,
     timezone |-> data.timezone,
     timezoneOffset |-> formatTimezoneOffset(data.timezone),
     city |-> data.name,
     country |-> IF Has(data, "sys") /\ Has(data.sys, "country")
                 THEN data.sys.country ELSE Null,
     state |-> Null,
     weather |-> IF Has(data, "weather") /\ Len(data.weather) > 0
                    /\ Has(data.weather[1], "description")
                 THEN data.weather[1].description ELSE Null]

\* A catch block that looks at the timeout code before the response.
FetchErrorTimeoutFirst(zipCode, outcome) ==
    IF Has(outcome, "code") /\ outcome.code = "ECONNABORTED"
    THEN NewError("Request timeout - OpenWeather API is not responding")
    ELSE IF outcome.kind = "response"
    THEN IF outcome.status = 404
         THEN NewError("Zip code " \o zipCode \o " not found")
         ELSE IF outcome.status = 401
         THEN NewError("Invalid API key configuration")
         ELSE IF outcome.status = 429
         THEN NewError("API rate limit exceeded. Please try again later.")
         ELSE NewError("OpenWeather API error: "
                       \o (IF Has(outcome.data, "message") /\ outcome.data.message # ""
                           THEN outcome.data.message ELSE "Unknown error"))
    ELSE NewError("Failed to fetch location data: " \o outcome.message)

\* The catch block of fetchLocationData: the error it throws for a failure.
FetchError(zipCode, outcome) ==
    IF outcome.kind = "response"
    THEN IF outcome.status = 404
         THEN NewError("Zip code " \o zipCode \o " not found")
         ELSE IF outcome.status = 401
         THEN NewError("Invalid API key configuration")
         ELSE IF outcome.status = 429
         THEN NewError("API rate limit exceeded. Please try again later.")
         ELSE NewError("OpenWeather API error: "
                       \o (IF Has(outcome.data, "message") /\ outcome.data.message # ""
                           THEN outcome.data.message ELSE "Unknown error"))
    ELSE IF outcome.code = "ECONNABORTED"
    THEN NewError("Request timeout - OpenWeather API is not responding")
    ELSE NewError("Failed to fetch location data: " \o outcome.message)

\* fetchLocationData once the provider has answered: the value it resolves
\* to, or the error it rejects with.
FetchResult(zipCode, outcome) ==
    IF outcome.kind = "ok"
    THEN [ok |-> TRUE, value |-> LocationData(outcome.data)]
    ELSE [ok |-> FALSE, error |-> FetchError(zipCode, outcome)]

\* fetchLocationData of a zip that fails isValidZipCode: the error thrown in
\* the try block is caught by the same catch and wrapped (no request is made).
FetchInvalidZipError ==
    NewError("Failed to fetch location data: "
             \o "Invalid zip code format. Must be 5 digits.")

(***************************************************************************)
(* UserService: the catch blocks.                                          *)
(***************************************************************************)
\* A catch block that rethrows every error as it caught it.
RethrowError(error) == error

\* createUser and updateUser: a tagged error is rethrown as it is, an error
\* whose message names the zip code or the API is tagged 400.
TagGeolocationError(error) ==
    IF HasStatusCode(error) THEN error
    ELSE IF Includes(error.message, "Zip code") \/ Includes(error.message, "API")
    THEN Tagged(error, 400)
    ELSE error

\* refreshUserLocation, deleteUser, getUserById, getUsersByZipCode, getAllUsers.
WrapServiceError(error) ==
    IF HasStatusCode(error) THEN error
    ELSE NewError("Service error: " \o error.message)

(***************************************************************************)
(* errorHandler: the error normalizer.  An error is an object with name    *)
(* and message and, when set, statusCode and code; code is a number        *)
(* ([type |-> "number", n |-> 11000]) or a string ([type |-> "string",     *)
(* s |-> "ECONNABORTED"]), which === tells apart.                          *)
(***************************************************************************)
NodeEnvs == {"production", "development", "test"}

CodeIsNumber(err, n) ==
    Has(err, "code") /\ err.code.type = "number" /\ err.code.n = n

CodeIsString(err, s) ==
    Has(err, "code") /\ err.code.type = "string" /\ err.code.s = s

\* let statusCode = err.statusCode || 500
InitialStatus(err) == IF HasStatusCode(err) THEN err.statusCode ELSE 500

\* let message = err.message || "Internal Server Error"
InitialMessage(err) ==
    IF err.message # "" THEN err.message ELSE "Internal Server Error"

TimeoutMessage == "The request timed out. Please try again with valid inputs."

DatabaseMessage ==
    "We're having trouble connecting to the database. Please try again."

ExternalServiceMessage == "Unable to fetch location data. Please try again later."

CastMessage == "We couldn't find that user. They may have been deleted."

DuplicateMessage == "A resource with this value already exists"

\* The chain with the storage rule tried before the timeout rule.
ClassifyStorageFirst(err) ==
    LET statusCode == InitialStatus(err)
        message == InitialMessage(err)
    IN  IF err.name = "ValidationError"
        THEN [statusCode |-> 400, error |-> "Validation Error", message |-> message]
        ELSE IF err.name = "CastError"
        THEN [statusCode |-> 404, error |-> "Not Found", message |-> CastMessage]
        ELSE IF CodeIsNumber(err, 11000)
        THEN [statusCode |-> 409, error |-> "Duplicate Entry",
              message |-> DuplicateMessage]
        ELSE IF TestIgnoreCase(err.message, "firebase")
                \/ TestIgnoreCase(err.message, "database")
        THEN [statusCode |-> 500, error |-> "Database Error",
              message |-> DatabaseMessage]
        ELSE IF CodeIsString(err, "ECONNABORTED")
                \/ TestIgnoreCase(err.message, "timeout")
        THEN [statusCode |-> 400, error |-> "Bad Request", message |-> TimeoutMessage]
        ELSE IF Includes(err.message, "OpenWeather")
        THEN [statusCode |-> 503, error |-> "External Service Error",
              message |-> ExternalServiceMessage]
        ELSE IF statusCode = 404
        THEN [statusCode |-> statusCode, error |-> "Not Found", message |-> message]
        ELSE IF statusCode = 400
        THEN [statusCode |-> statusCode, error |-> "Bad Request", message |-> message]
        ELSE IF statusCode = 401
        THEN [statusCode |-> statusCode, error |-> "Unauthorized", message |-> message]
        ELSE IF statusCode = 403
        THEN [statusCode |-> statusCode, error |-> "Forbidden", message |-> message]
        ELSE [statusCode |-> statusCode, error |-> "Error", message |-> message]

\* The if / else-if chain: [statusCode, error, message].
Classify(err) ==
    LET statusCode == InitialStatus(err)
        message == InitialMessage(err)
    IN  IF err.name = "ValidationError"
        THEN [statusCode |-> 400, error |-> "Validation Error", message |-> message]
        ELSE IF err.name = "CastError"
        THEN [statusCode |-> 404, error |-> "Not Found", message |-> CastMessage]
        ELSE IF CodeIsNumber(err, 11000)
        THEN [statusCode |-> 409, error |-> "Duplicate Entry",
              message |-> DuplicateMessage]
        ELSE IF CodeIsString(err, "ECONNABORTED")
                \/ TestIgnoreCase(err.message, "timeout")
        THEN [statusCode |-> 400, error |-> "Bad Request", message |-> TimeoutMessage]
        ELSE IF TestIgnoreCase(err.message, "firebase")
                \/ TestIgnoreCase(err.message, "database")
        THEN [statusCode |-> 500, error |-> "Database Error",
              message |-> DatabaseMessage]
        ELSE IF Includes(err.message, "OpenWeather")
        THEN [statusCode |-> 503, error |-> "External Service Error",
              message |-> ExternalServiceMessage]
        ELSE IF statusCode = 404
        THEN [statusCode |-> statusCode, error |-> "Not Found", message |-> message]
        ELSE IF statusCode = 400
        THEN [statusCode |-> statusCode, error |-> "Bad Request", message |-> message]
        ELSE IF statusCode = 401
        THEN [statusCode |-> statusCode, error |-> "Unauthorized", message |-> message]
        ELSE IF statusCode = 403
        THEN [statusCode |-> statusCode, error |-> "Forbidden", message |-> message]
        ELSE [statusCode |-> statusCode, error |-> "Error", message |-> message]

\* res.status(statusCode).json({...}): the response, [status, body].
errorHandler(err, env) ==
    LET c == Classify(err)
        base == [success |-> FALSE, error |-> c.error, message |-> c.message]
    IN  [status |-> c.statusCode,
         body |-> IF env = "development"
                  THEN Merge(base, [stack |-> "stack", details |-> err])
                  ELSE base]

(***************************************************************************)
(* The request validator (validateCreateUser, validateUpdateUser).  Every  *)
(* rule of a chain is run and every failure reported; the trimmed values   *)
(* replace the fields of the body.                                         *)
(***************************************************************************)
NameClass(c) == IsLetter(c) \/ c \in Whitespace \/ c = "'" \/ c = "-"

\* /^[a-zA-Z\s'-]+(?:\s\d+)?$/
NamePattern(s) ==
    \E k \in 1..Len(s) :
        /\ \A i \in 1..k : NameClass(CharAt(s, i))
        /\ \/ k = Len(s)
           \/ /\ k + 2 <= Len(s)
              /\ CharAt(s, k + 1) \in Whitespace
              /\ \A i \in (k + 2)..Len(s) : CharAt(s, i) \in Digits

NameMinLength == 2

NameMaxLength == 100

Detail(field, message) == [field |-> field, message |-> message]

\* A chain of body('name') that stops at its first failure.
NameDetailsFirstOnly(value, emptyMessage) ==
    IF value = "" THEN <<Detail("name", emptyMessage)>>
    ELSE IF Len(value) < NameMinLength \/ Len(value) > NameMaxLength
    THEN <<Detail("name", "Name must be between 2 and 100 characters")>>
    ELSE IF ~NamePattern(value)
    THEN <<Detail("name",
             "Name can only contain letters, spaces, hyphens, and apostrophes")>>
    ELSE <<>>

\* The chain of body('name') on a trimmed value.
NameDetails(value, emptyMessage) ==
    (IF value = "" THEN <<Detail("name", emptyMessage)>> ELSE <<>>)
    \o (IF Len(value) < NameMinLength \/ Len(value) > NameMaxLength
        THEN <<Detail("name", "Name must be between 2 and 100 characters")>>
        ELSE <<>>)
    \o (IF ~NamePattern(value)
        THEN <<Detail("name",
                 "Name can only contain letters, spaces, hyphens, and apostrophes")>>
        ELSE <<>>)

\* The chain of body('zipCode') on a trimmed value.
ZipDetails(value, emptyMessage) ==
    (IF value = "" THEN <<Detail("zipCode", emptyMessage)>> ELSE <<>>)
    \o (IF ~ZipPattern(value)
        THEN <<Detail("zipCode", "Zip code must be exactly 5 digits")>>
        ELSE <<>>)

\* The value a chain sees: the field trimmed, "" for a field that is absent.
Sanitized(body, field) == IF Has(body, field) THEN Trim(body[field]) ELSE ""

\* The body once the sanitizers have run: each present field trimmed.
SanitizedBody(body) ==
    [k \in DOMAIN body |->
        IF k \in {"name", "zipCode"} THEN Trim(body[k]) ELSE body[k]]

validateCreateUser(body) ==
    [details |-> NameDetails(Sanitized(body, "name"), "Name is required")
                 \o ZipDetails(Sanitized(body, "zipCode"), "Zip code is required"),
     body |-> SanitizedBody(body)]

\* .optional(): the chain of a field that is absent does not run.
validateUpdateUser(body) ==
    [details |-> (IF Has(body, "name")
                  THEN NameDetails(Sanitized(body, "name"), "Name cannot be empty")
                  ELSE <<>>)
                 \o (IF Has(body, "zipCode")
                     THEN ZipDetails(Sanitized(body, "zipCode"),
                                     "Zip code cannot be empty")
                     ELSE <<>>),
     body |-> SanitizedBody(body)]

\* The error responder of both validators.
ValidationResponse(details) ==
    [status |-> 400,
     body |-> [success |-> FALSE, error |-> "Validation failed", details |-> details]]

(***************************************************************************)
(* The state of the server.                                                *)
(***************************************************************************)
VARIABLES
    store,      \* the users node of the document store: id -> record
    nextKey,    \* how many keys push() has generated
    clock,      \* the store's server time: the last timestamp it stamped
    req,        \* the requests: position, inputs, locals and outcome of each
    err,        \* an error handed to errorHandler on its own
    nodeEnv,    \* process.env.NODE_ENV when err is handled
    res,        \* the response errorHandler gave for err, once it has
    offset,     \* a timezone offset in seconds handed to formatTimezoneOffset
    formatted,  \* the label formatTimezoneOffset returned for offset, once it has
    cache,      \* the client's query data under the key ['users']
    stale,      \* whether a fetch of the client's users query is due
    mut         \* the client's mutations: position, variables, context, outcome

formatVars == <<offset, formatted>>

clientVars == <<cache, stale, mut>>

vars == <<store, nextKey, clock, req, err, nodeEnv, res, offset, formatted, cache, stale, mut>>

Requests == 1..NumReq

\* A push() that generates the same key every time.
KeyReused(n) == "k1"

\* The key the n-th push() generates: unique, never reused.
Key(n) == "k" \o ToString(n)

\* The ids requests name in their path.
TargetIds == {Key(1), Key(2)}

\* A request that has not arrived.  Beside its position (pc), inputs (op, via,
\* id, body), locals (zip, data, key) and outcome (out), a request records how
\* many provider requests (calls) and store writes (writes) it has made and
\* what the provider last answered it (reply).
Idle ==
    [pc |-> "idle", op |-> "", via |-> "", id |-> "", body |-> EmptyObj,
     zip |-> "", data |-> EmptyObj, key |-> "", calls |-> 0, writes |-> 0,
     reply |-> [kind |-> "none"], out |-> [kind |-> "none"]]

NoError == [name |-> "", message |-> ""]

NoResponse == [status |-> 0, body |-> EmptyObj]

\* formatTimezoneOffset has not returned.
NoLabel == ""

\* JavaScript's undefined.
Undefined == [js |-> "undefined"]

\* The client has no mutation under way.
NoMutation == [pc |-> "idle"]

\* The record createUser and UserRepository.create store for (name, zipCode)
\* with the location of one provider payload, stamped at time t.
CreatedRecord(name, zipCode, payload, t) ==
    LET locationData == LocationData(payload)
    IN  [name |-> name, zipCode |-> zipCode,
         latitude |-> locationData.latitude,
         longitude |-> locationData.longitude,
         timezone |-> locationData.timezone,
         timezoneOffset |-> locationData.timezoneOffset,
         city |-> locationData.city,
         createdAt |-> t, updatedAt |-> t]

EmptyStore == [k \in {} |-> EmptyObj]

\* The stores a run starts from: empty, or holding one record created earlier.
InitialStores ==
    {[store |-> EmptyStore, nextKey |-> 0, clock |-> 0],
     [store |-> [k \in {Key(1)} |->
                    CreatedRecord("Al", "12345",
                                  Payload(407128, -740060, -18000, "New York"), 1)],
      nextKey |-> 1, clock |-> 1]}

\* Nothing has been handed to formatTimezoneOffset.
FormatIdle == offset = 0 /\ formatted = NoLabel

\* The client has fetched nothing and mutates nothing.
Mutations == 1..NumMut

ClientIdle ==
    cache = Undefined /\ stale = FALSE /\ mut = [m \in Mutations |-> NoMutation]

Init ==
    /\ FormatIdle
    /\ ClientIdle
    /\ \E s \in InitialStores :
          /\ store = s.store
          /\ nextKey = s.nextKey
          /\ clock = s.clock
    /\ req = [r \in Requests |-> Idle]
    /\ err = NoError
    /\ nodeEnv = "production"
    /\ res = NoResponse

(***************************************************************************)
(* Steps of a request.  A request suspends at each await; the step of a    *)
(* position performs the awaited call and runs the code after it up to the *)
(* next await.                                                             *)
(***************************************************************************)
\* The request q ends: the service returned or threw, or the validator
\* answered.
Finish(q, out) ==
    [q EXCEPT !.pc = "done", !.out = out, !.zip = "", !.data = EmptyObj, !.key = ""]

Returned(value) == [kind |-> "returned", value |-> value]

Threw(error) == [kind |-> "threw", error |-> error]

Rejected(details) == [kind |-> "rejected", details |-> details]

\* Requests arrive in the order of their numbers.
Arrives(r) ==
    /\ req[r].pc = "idle"
    /\ r > 1 => req[r - 1].pc # "idle"

\* !value of a body field: absent or the empty string.
Falsy(body, field) == ~Has(body, field) \/ body[field] = ""

InvalidZipError == Tagged(NewError("Invalid zip code format. Must be 5 digits."), 400)

NotFoundError == Tagged(NewError("User not found"), 404)

(***************************************************************************)
(* The inputs requests are given.                                          *)
(***************************************************************************)
\* "http": through the route (validator, controller); "direct": a call of
\* the service method, as the service's other callers and its tests make it.
Vias == {"http", "direct"}

\* A name of 101 letters.
LongName ==
    "Maximiliana" \o "aaaaaaaaaaaaaaaaaaaaaaaaaaaaaaaaaaaaaaaaaaaaa"
                  \o "aaaaaaaaaaaaaaaaaaaaaaaaaaaaaaaaaaaaaaaaaaaaa"

NameInputs == {" Bo ", "Cy 2", "D", "B0b", LongName}

ZipInputs == {"12345", " 90210 ", "1234", "9021a"}

\* Request bodies: each of name and zipCode absent or one of the inputs.
Bodies ==
    {EmptyObj}
        \cup {[name |-> n] : n \in NameInputs \cup {""}}
        \cup {[zipCode |-> z] : z \in ZipInputs \cup {""}}
        \cup {[name |-> n, zipCode |-> z] : n \in NameInputs, z \in ZipInputs}

\* Update payloads that carry keys beside name and zipCode: keys of the stored
\* record and of the returned one, with values no record holds.
ExtraKeyBodies ==
    {[name |-> " Bo ", id |-> "k9", createdAt |-> 0, latitude |-> 0,
      city |-> "Nowhere"],
     [zipCode |-> " 90210 ", id |-> "k9", createdAt |-> 0, latitude |-> 0,
      city |-> "Nowhere"]}

Call(via, body) == [via |-> via, body |-> body]

\* What the requests of a run are given: the calls of create and of update
\* (how the request enters, and its body), the zip codes asked for in
\* /zip/:zipCode, and the ways the provider fails.
\* Every call and every failure, for a request that runs alone.
Rich ==
    [creates |-> {Call(via, body) : via \in Vias, body \in Bodies},
     updates |-> {Call(via, body) : via \in Vias,
                                    body \in Bodies \cup ExtraKeyBodies},
     zips |-> ZipInputs,
     faults |-> StatusFaults \cup TransportFaults]

\* For requests that run concurrently: bodies that reach the store or the
\* provider, one body each check refuses, and two of the provider's failures.
Lean ==
    [creates |-> {Call("http", [name |-> " Bo ", zipCode |-> "12345"]),
                  Call("http", [name |-> " Bo ", zipCode |-> " 90210 "]),
                  Call("http", [name |-> " Bo ", zipCode |-> "1234"]),
                  Call("direct", [name |-> " Bo ", zipCode |-> "1234"]),
                  Call("direct", [zipCode |-> "12345"])},
     updates |-> {Call("http", [name |-> " Bo "]),
                  Call("http", [zipCode |-> " 90210 "]),
                  Call("http", [name |-> " Bo ", zipCode |-> "12345"]),
                  Call("http", EmptyObj),
                  Call("direct", [zipCode |-> "1234"])},
     zips |-> {"12345", "1234"},
     faults |-> {f \in StatusFaults : f.status = 404}
                \cup {f \in TransportFaults : f.code = "ERR_NETWORK"}]

\* For runs that only create and list.
LeanCreate ==
    [creates |-> {Call("http", [name |-> " Bo ", zipCode |-> " 90210 "]),
                  Call("direct", [name |-> " Bo ", zipCode |-> "1234"])},
     updates |-> {},
     zips |-> {},
     faults |-> {f \in StatusFaults : f.status = 404}]

\* What a request keeps of the provider's answer: a failure, or that it was
\* a success.
Reply(outcome) == IF outcome.kind = "ok" THEN [kind |-> "ok"] ELSE outcome

\* What one provider request of a run for a zip ends in.
Outcomes(p, zip) ==
    {[kind |-> "ok", data |-> d] : d \in ProviderPayloads(zip)} \cup p.faults

\* The request q arrives with its inputs.
Arrived(q, op, via, id, body) ==
    [q EXCEPT !.op = op, !.via = via, !.id = id, !.body = body]

\* A copy of locationData that leaves the city out.
LocationFieldsNoCity(locationData) ==
    [latitude |-> locationData.latitude,
     longitude |-> locationData.longitude,
     timezone |-> locationData.timezone,
     timezoneOffset |-> locationData.timezoneOffset]

\* The five location fields createUser and updateUser copy from locationData.
LocationFields(locationData) ==
    [latitude |-> locationData.latitude,
     longitude |-> locationData.longitude,
     timezone |-> locationData.timezone,
     timezoneOffset |-> locationData.timezoneOffset,
     city |-> locationData.city]

(***************************************************************************)
(* POST /api/users: validateCreateUser, UserController.createUser,         *)
(* UserService.createUser, UserRepository.create.                          *)
(***************************************************************************)
\* createUser up to its first await: the required-field and format checks,
\* then the call of fetchLocationData.
CreateUserChecks(q, userData) ==
    IF Falsy(userData, "name") \/ Falsy(userData, "zipCode")
    THEN Finish(q, Threw(Tagged(NewError("Name and zip code are required"), 400)))
    ELSE LET sanitizedData == [name |-> Trim(userData.name),
                               zipCode |-> Trim(userData.zipCode)]
         IN  IF ~isValidZipCode(sanitizedData.zipCode)
             THEN Finish(q, Threw(InvalidZipError))
             ELSE [q EXCEPT !.pc = "fetch",
                            !.zip = sanitizedData.zipCode,
                            !.data = sanitizedData,
                            !.calls = @ + 1]

StartCreate(r, p) ==
    /\ Arrives(r)
    /\ \E c \in p.creates :
          LET v == validateCreateUser(c.body)
              q == Arrived(req[r], "create", c.via, "", c.body)
          IN  req' = [req EXCEPT ![r] =
                         IF c.via = "http" /\ v.details # <<>>
                         THEN Finish(q, Rejected(v.details))
                         ELSE CreateUserChecks(q, IF c.via = "http" THEN v.body
                                                  ELSE c.body)]
    /\ UNCHANGED <<store, nextKey, clock, err, nodeEnv, res, formatVars, clientVars>>

\* A createUser that hands sanitizedData to the repository when the call of
\* fetchLocationData is made, before it has settled.
CreateFetchedAfterStoring(r, p) ==
    /\ req[r].pc = "fetch"
    /\ req[r].op = "create"
    /\ nextKey' = nextKey + 1
    /\ clock' = clock + 1
    /\ \E outcome \in Outcomes(p, req[r].zip) :
          LET result == FetchResult(req[r].zip, outcome)
              written == Merge(req[r].data,
                               [createdAt |-> clock + 1, updatedAt |-> clock + 1])
          IN  /\ store' = [k \in (DOMAIN store) \cup {Key(nextKey + 1)} |->
                              IF k = Key(nextKey + 1) THEN written ELSE store[k]]
              /\ req' = [req EXCEPT ![r] =
                            IF result.ok
                            THEN [@ EXCEPT !.pc = "set",
                                           !.reply = Reply(outcome),
                                           !.data = Merge(@, LocationFields(result.value)),
                                           !.key = Key(nextKey + 1)]
                            ELSE Finish([@ EXCEPT !.reply = Reply(outcome)],
                                        Threw(TagGeolocationError(result.error)))]
    /\ UNCHANGED <<err, nodeEnv, res, formatVars, clientVars>>

\* fetchLocationData settles; on success createUser builds completeUserData
\* and UserRepository.create takes a new key with push() and calls set().
CreateFetched(r, p) ==
    /\ req[r].pc = "fetch"
    /\ req[r].op = "create"
    /\ \E outcome \in Outcomes(p, req[r].zip) :
          LET result == FetchResult(req[r].zip, outcome)
          IN  IF result.ok
              THEN /\ nextKey' = nextKey + 1
                   /\ req' = [req EXCEPT ![r] =
                                 [@ EXCEPT !.pc = "set",
                                           !.reply = Reply(outcome),
                                           !.data = Merge(@, LocationFields(result.value)),
                                           !.key = Key(nextKey + 1)]]
              ELSE /\ nextKey' = nextKey
                   /\ req' = [req EXCEPT ![r] =
                                 Finish([@ EXCEPT !.reply = Reply(outcome)],
                                        Threw(TagGeolocationError(result.error)))]
    /\ UNCHANGED <<store, clock, err, nodeEnv, res, formatVars, clientVars>>

\* newUserRef.set(newUser): the record is written with both timestamps.
RepoCreateSet(r) ==
    /\ req[r].pc = "set"
    /\ clock' = clock + 1
    /\ store' = [k \in (DOMAIN store) \cup {req[r].key} |->
                    IF k = req[r].key
                    THEN Merge(req[r].data,
                               [createdAt |-> clock + 1, updatedAt |-> clock + 1])
                    ELSE store[k]]
    /\ req' = [req EXCEPT ![r] = [@ EXCEPT !.pc = "created", !.writes = @ + 1]]
    /\ UNCHANGED <<nextKey, err, nodeEnv, res, formatVars, clientVars>>

\* { id, ...snapshot.val() } of a record read back, which may be gone.
WithId(id, s) == Merge([id |-> id], IF id \in DOMAIN s THEN s[id] ELSE EmptyObj)

\* newUserRef.once("value"): the new record is read back and returned.
RepoCreateRead(r) ==
    /\ req[r].pc = "created"
    /\ req' = [req EXCEPT ![r] = Finish(@, Returned(WithId(req[r].key, store)))]
    /\ UNCHANGED <<store, nextKey, clock, err, nodeEnv, res, formatVars, clientVars>>

(***************************************************************************)
(* PUT /api/users/:id: validateUpdateUser, UserController.updateUser,      *)
(* UserService.updateUser, UserRepository.update.                          *)
(***************************************************************************)
StartUpdate(r, p) ==
    /\ Arrives(r)
    /\ \E c \in p.updates, id \in TargetIds :
          LET v == validateUpdateUser(c.body)
              q == Arrived(req[r], "update", c.via, id, c.body)
          IN  req' = [req EXCEPT ![r] =
                         IF c.via = "http" /\ v.details # <<>>
                         THEN Finish(q, Rejected(v.details))
                         ELSE [q EXCEPT !.pc = "findById",
                                        !.data = IF c.via = "http" THEN v.body
                                                 ELSE c.body]]
    /\ UNCHANGED <<store, nextKey, clock, err, nodeEnv, res, formatVars, clientVars>>

\* An updateUser that hands an empty update set to the repository.
UpdateUserChecksEmptyWrite(q, s) ==
    IF q.id \notin DOMAIN s
    THEN Finish(q, Threw(NotFoundError))
    ELSE LET existingUser == s[q.id]
             updateData == q.data
             updates == IF Has(updateData, "name")
                        THEN [name |-> Trim(updateData.name)]
                        ELSE EmptyObj
             zipChanged ==
                 /\ ~Falsy(updateData, "zipCode")
                 /\ \/ ~Has(existingUser, "zipCode")
                    \/ updateData.zipCode # existingUser.zipCode
         IN  IF zipChanged
             THEN LET newZipCode == Trim(updateData.zipCode)
                  IN  IF ~isValidZipCode(newZipCode)
                      THEN Finish(q, Threw(InvalidZipError))
                      ELSE [q EXCEPT !.pc = "fetch", !.zip = newZipCode,
                                     !.data = updates, !.calls = @ + 1]
             ELSE [q EXCEPT !.pc = "exists", !.data = updates]

\* An updateUser that enriches whenever the payload carries a zip code.
UpdateUserChecksAlwaysFetch(q, s) ==
    IF q.id \notin DOMAIN s
    THEN Finish(q, Threw(NotFoundError))
    ELSE LET updateData == q.data
             updates == IF Has(updateData, "name")
                        THEN [name |-> Trim(updateData.name)]
                        ELSE EmptyObj
         IN  IF ~Falsy(updateData, "zipCode")
             THEN LET newZipCode == Trim(updateData.zipCode)
                  IN  IF ~isValidZipCode(newZipCode)
                      THEN Finish(q, Threw(InvalidZipError))
                      ELSE [q EXCEPT !.pc = "fetch", !.zip = newZipCode,
                                     !.data = updates, !.calls = @ + 1]
             ELSE IF DOMAIN updates = {}
             THEN Finish(q, Threw(Tagged(NewError("No valid updates provided"), 400)))
             ELSE [q EXCEPT !.pc = "exists", !.data = updates]

\* An updateUser whose update set starts as a copy of the payload.
UpdateUserChecksSpreading(q, s) ==
    IF q.id \notin DOMAIN s
    THEN Finish(q, Threw(NotFoundError))
    ELSE LET existingUser == s[q.id]
             updateData == q.data
             updates == IF Has(updateData, "name")
                        THEN Merge(updateData, [name |-> Trim(updateData.name)])
                        ELSE updateData
             zipChanged ==
                 /\ ~Falsy(updateData, "zipCode")
                 /\ \/ ~Has(existingUser, "zipCode")
                    \/ updateData.zipCode # existingUser.zipCode
         IN  IF zipChanged
             THEN LET newZipCode == Trim(updateData.zipCode)
                  IN  IF ~isValidZipCode(newZipCode)
                      THEN Finish(q, Threw(InvalidZipError))
                      ELSE [q EXCEPT !.pc = "fetch", !.zip = newZipCode,
                                     !.data = updates, !.calls = @ + 1]
             ELSE IF DOMAIN updates = {}
             THEN Finish(q, Threw(Tagged(NewError("No valid updates provided"), 400)))
             ELSE [q EXCEPT !.pc = "exists", !.data = updates]

\* updateUser from the result of findById to its next await: the update set
\* is built; a changed zip code is validated and sent to fetchLocationData.
UpdateUserChecks(q, s) ==
    IF q.id \notin DOMAIN s
    THEN Finish(q, Threw(NotFoundError))
    ELSE LET existingUser == s[q.id]
             updateData == q.data
             updates == IF Has(updateData, "name")
                        THEN [name |-> Trim(updateData.name)]
                        ELSE EmptyObj
             zipChanged ==
                 /\ ~Falsy(updateData, "zipCode")
                 /\ \/ ~Has(existingUser, "zipCode")
                    \/ updateData.zipCode # existingUser.zipCode
         IN  IF zipChanged
             THEN LET newZipCode == Trim(updateData.zipCode)
                  IN  IF ~isValidZipCode(newZipCode)
                      THEN Finish(q, Threw(InvalidZipError))
                      ELSE [q EXCEPT !.pc = "fetch", !.zip = newZipCode,
                                     !.data = updates, !.calls = @ + 1]
             ELSE IF DOMAIN updates = {}
             THEN Finish(q, Threw(Tagged(NewError("No valid updates provided"), 400)))
             ELSE [q EXCEPT !.pc = "exists", !.data = updates]

\* userRepository.findById(id) resolves.
UpdateFindById(r) ==
    /\ req[r].pc = "findById"
    /\ req[r].op = "update"
    /\ req' = [req EXCEPT ![r] = UpdateUserChecks(@, store)]
    /\ UNCHANGED <<store, nextKey, clock, err, nodeEnv, res, formatVars, clientVars>>

\* An updateUser whose enrichment call is made once more after a failure.
UpdateFetchedRetrying(r, p) ==
    /\ req[r].pc = "fetch"
    /\ req[r].op = "update"
    /\ \E outcome \in Outcomes(p, req[r].zip) :
          LET result == FetchResult(req[r].zip, outcome)
          IN  req' = [req EXCEPT ![r] =
                         IF result.ok
                         THEN [@ EXCEPT
                                 !.pc = "exists",
                                 !.reply = Reply(outcome),
                                 !.data = Merge(Merge(@, [zipCode |-> req[r].zip]),
                                                Merge(LocationFields(result.value),
                                                      [locationUpdatedAt |-> clock]))]
                         ELSE IF req[r].calls < 2
                         THEN [@ EXCEPT !.reply = Reply(outcome), !.calls = @ + 1]
                         ELSE Finish([@ EXCEPT !.reply = Reply(outcome)],
                                     Threw(TagGeolocationError(result.error)))]
    /\ UNCHANGED <<store, nextKey, clock, err, nodeEnv, res, formatVars, clientVars>>

\* fetchLocationData settles; on success the zip code and its location are
\* added to the update set and UserRepository.update is called.
UpdateFetched(r, p) ==
    /\ req[r].pc = "fetch"
    /\ req[r].op = "update"
    /\ \E outcome \in Outcomes(p, req[r].zip) :
          LET result == FetchResult(req[r].zip, outcome)
          IN  req' = [req EXCEPT ![r] =
                         IF result.ok
                         THEN [@ EXCEPT
                                 !.pc = "exists",
                                 !.reply = Reply(outcome),
                                 !.data = Merge(Merge(@, [zipCode |-> req[r].zip]),
                                                Merge(LocationFields(result.value),
                                                      [locationUpdatedAt |-> clock]))]
                         ELSE Finish([@ EXCEPT !.reply = Reply(outcome)],
                                     Threw(TagGeolocationError(result.error)))]
    /\ UNCHANGED <<store, nextKey, clock, err, nodeEnv, res, formatVars, clientVars>>

\* UserRepository.update: userRef.once("value") and the existence check.
RepoUpdateExists(r) ==
    /\ req[r].pc = "exists"
    /\ req' = [req EXCEPT ![r] =
                  IF req[r].id \in DOMAIN store
                  THEN [@ EXCEPT !.pc = "write"]
                  ELSE Finish(@, Returned(Null))]
    /\ UNCHANGED <<store, nextKey, clock, err, nodeEnv, res, formatVars, clientVars>>

\* userRef.update(updates) on the store: the keys given are written under the
\* id and the other keys are kept; a path that holds nothing gets the keys
\* given.
StoreUpdate(s, id, updates) ==
    [k \in (DOMAIN s) \cup {id} |->
        IF k = id
        THEN Merge(IF id \in DOMAIN s THEN s[id] ELSE EmptyObj, updates)
        ELSE s[k]]

\* UserRepository.update: userRef.update({...updateData, updatedAt}).
RepoUpdateWrite(r) ==
    /\ req[r].pc = "write"
    /\ clock' = clock + 1
    /\ store' = StoreUpdate(store, req[r].id,
                            Merge(req[r].data, [updatedAt |-> clock + 1]))
    /\ req' = [req EXCEPT ![r] = [@ EXCEPT !.pc = "updated", !.writes = @ + 1]]
    /\ UNCHANGED <<nextKey, err, nodeEnv, res, formatVars, clientVars>>

\* UserRepository.update: the record is read again and returned.
RepoUpdateRead(r) ==
    /\ req[r].pc = "updated"
    /\ req' = [req EXCEPT ![r] = Finish(@, Returned(WithId(req[r].id, store)))]
    /\ UNCHANGED <<store, nextKey, clock, err, nodeEnv, res, formatVars, clientVars>>

(***************************************************************************)
(* POST /api/users/:id/refresh-location: UserService.refreshUserLocation.  *)
(***************************************************************************)
StartRefresh(r) ==
    /\ Arrives(r)
    /\ \E id \in TargetIds :
          req' = [req EXCEPT ![r] =
                     [Arrived(@, "refresh", "http", id, EmptyObj) EXCEPT
                         !.pc = "findById"]]
    /\ UNCHANGED <<store, nextKey, clock, err, nodeEnv, res, formatVars, clientVars>>

\* refreshUserLocation from the result of findById to its next await.
RefreshChecks(q, s) ==
    IF q.id \notin DOMAIN s
    THEN Finish(q, Threw(NotFoundError))
    ELSE LET user == s[q.id]
             zipCode == IF Has(user, "zipCode") THEN user.zipCode ELSE "undefined"
         IN  IF ~isValidZipCode(zipCode)
             THEN Finish(q, Threw(WrapServiceError(FetchInvalidZipError)))
             ELSE [q EXCEPT !.pc = "fetch", !.zip = zipCode, !.calls = @ + 1]

RefreshFindById(r) ==
    /\ req[r].pc = "findById"
    /\ req[r].op = "refresh"
    /\ req' = [req EXCEPT ![r] = RefreshChecks(@, store)]
    /\ UNCHANGED <<store, nextKey, clock, err, nodeEnv, res, formatVars, clientVars>>

\* The update set refreshUserLocation builds from locationData.
RefreshUpdates(locationData, now) ==
    [latitude |-> locationData.latitude,
     longitude |-> locationData.longitude,
     timezone |-> locationData.timezone,
     timezoneOffset |-> locationData.timezoneOffset,
     locationUpdatedAt |-> now]

RefreshFetched(r, p) ==
    /\ req[r].pc = "fetch"
    /\ req[r].op = "refresh"
    /\ \E outcome \in Outcomes(p, req[r].zip) :
          LET result == FetchResult(req[r].zip, outcome)
          IN  req' = [req EXCEPT ![r] =
                         IF result.ok
                         THEN [@ EXCEPT !.pc = "exists",
                                        !.reply = Reply(outcome),
                                        !.data = RefreshUpdates(result.value, clock)]
                         ELSE Finish([@ EXCEPT !.reply = Reply(outcome)],
                                     Threw(WrapServiceError(result.error)))]
    /\ UNCHANGED <<store, nextKey, clock, err, nodeEnv, res, formatVars, clientVars>>

(***************************************************************************)
(* DELETE /api/users/:id: UserService.deleteUser, UserRepository.delete.   *)
(***************************************************************************)
StartDelete(r) ==
    /\ Arrives(r)
    /\ \E id \in TargetIds :
          req' = [req EXCEPT ![r] =
                     [Arrived(@, "delete", "http", id, EmptyObj) EXCEPT
                         !.pc = "deleteRead"]]
    /\ UNCHANGED <<store, nextKey, clock, err, nodeEnv, res, formatVars, clientVars>>

\* userRef.once("value"): the record is captured, or there is none.
RepoDeleteRead(r) ==
    /\ req[r].pc = "deleteRead"
    /\ req' = [req EXCEPT ![r] =
                  IF req[r].id \in DOMAIN store
                  THEN [@ EXCEPT !.pc = "remove", !.data = store[req[r].id]]
                  ELSE Finish(@, Threw(NotFoundError))]
    /\ UNCHANGED <<store, nextKey, clock, err, nodeEnv, res, formatVars, clientVars>>

\* userRef.remove(), then { id, ...user } is returned.
RepoDeleteRemove(r) ==
    /\ req[r].pc = "remove"
    /\ store' = [k \in (DOMAIN store) \ {req[r].id} |-> store[k]]
    /\ req' = [req EXCEPT ![r] =
                  Finish([@ EXCEPT !.writes = @ + 1],
                         Returned(Merge([id |-> req[r].id], req[r].data)))]
    /\ UNCHANGED <<nextKey, clock, err, nodeEnv, res, formatVars, clientVars>>

(***************************************************************************)
(* GET /api/users: UserService.getAllUsers, UserRepository.findAll.        *)
(***************************************************************************)
StartList(r) ==
    /\ Arrives(r)
    /\ req' = [req EXCEPT ![r] =
                  [Arrived(@, "list", "http", "", EmptyObj) EXCEPT !.pc = "findAll"]]
    /\ UNCHANGED <<store, nextKey, clock, err, nodeEnv, res, formatVars, clientVars>>

\* Object.entries(users).map(([id, data]) => ({ id, ...data })), as a set.
AllUsers(s) == {WithId(id, s) : id \in DOMAIN s}

ListRead(r) ==
    /\ req[r].pc = "findAll"
    /\ req' = [req EXCEPT ![r] = Finish(@, Returned(AllUsers(store)))]
    /\ UNCHANGED <<store, nextKey, clock, err, nodeEnv, res, formatVars, clientVars>>

(***************************************************************************)
(* GET /api/users/:id: UserService.getUserById, UserRepository.findById.   *)
(***************************************************************************)
StartGet(r) ==
    /\ Arrives(r)
    /\ \E id \in TargetIds :
          req' = [req EXCEPT ![r] =
                     [Arrived(@, "get", "http", id, EmptyObj) EXCEPT
                         !.pc = "findById"]]
    /\ UNCHANGED <<store, nextKey, clock, err, nodeEnv, res, formatVars, clientVars>>

\* A getUserById that returns what findById gave without looking at it.
GetUserUnchecked(q, s) == Finish(q, Returned(WithId(q.id, s)))

\* getUserById from the result of findById: the record with its id, or the
\* 404 error.
GetUserChecks(q, s) ==
    IF q.id \notin DOMAIN s
    THEN Finish(q, Threw(NotFoundError))
    ELSE Finish(q, Returned(WithId(q.id, s)))

GetFindById(r) ==
    /\ req[r].pc = "findById"
    /\ req[r].op = "get"
    /\ req' = [req EXCEPT ![r] = GetUserChecks(@, store)]
    /\ UNCHANGED <<store, nextKey, clock, err, nodeEnv, res, formatVars, clientVars>>

(***************************************************************************)
(* GET /api/users/zip/:zipCode: UserService.getUsersByZipCode,             *)
(* UserRepository.findByZipCode.  The route has no validator.              *)
(***************************************************************************)
\* getUsersByZipCode up to its await: the format check.
ByZipChecks(q, zipCode) ==
    IF ~isValidZipCode(zipCode)
    THEN Finish(q, Threw(InvalidZipError))
    ELSE [q EXCEPT !.pc = "findByZipCode", !.zip = zipCode]

StartByZip(r, p) ==
    /\ Arrives(r)
    /\ \E z \in p.zips :
          req' = [req EXCEPT ![r] =
                     ByZipChecks(Arrived(@, "byZip", "http", "", [zipCode |-> z]), z)]
    /\ UNCHANGED <<store, nextKey, clock, err, nodeEnv, res, formatVars, clientVars>>

\* A query that does not filter.
UsersWithAnyZip(s, zipCode) == {WithId(id, s) : id \in DOMAIN s}

\* orderByChild("zipCode").equalTo(zipCode): the records whose zipCode is the
\* string given, each with its id.
UsersWithZip(s, zipCode) ==
    {WithId(id, s) : id \in {k \in DOMAIN s :
                                Has(s[k], "zipCode") /\ s[k].zipCode = zipCode}}

ByZipRead(r) ==
    /\ req[r].pc = "findByZipCode"
    /\ req' = [req EXCEPT ![r] = Finish(@, Returned(UsersWithZip(store, req[r].zip)))]
    /\ UNCHANGED <<store, nextKey, clock, err, nodeEnv, res, formatVars, clientVars>>

(***************************************************************************)
(* A request no route matches: the 404 handler of the app.                 *)
(***************************************************************************)
Unrouted == [kind |-> "unrouted"]

StartUnknown(r) ==
    /\ Arrives(r)
    /\ req' = [req EXCEPT ![r] =
                  Finish(Arrived(@, "unknown", "http", "", EmptyObj), Unrouted)]
    /\ UNCHANGED <<store, nextKey, clock, err, nodeEnv, res, formatVars, clientVars>>

\* res.status(404).json({ error, message }) of the 404 handler.
NotFoundResponse ==
    [status |-> 404,
     body |-> [error |-> "Not Found", message |-> "Cannot GET /api/unknown"]]

(***************************************************************************)
(* The controller: the response of a request that went through the route.  *)
(***************************************************************************)
SuccessStatus(op) == IF op = "create" THEN 201 ELSE 200

SuccessMessage(op) ==
    IF op = "create" THEN "User created successfully"
    ELSE IF op = "update" THEN "User updated successfully"
    ELSE IF op = "delete" THEN "User deleted successfully"
    ELSE "Location data refreshed successfully"

\* The response to a request under a runtime mode: res.status(...).json({...})
\* of the controller method, next(error) into errorHandler, or the validator's
\* own response.  (The steps of a request do not read the runtime mode.)
Response(q, mode) ==
    IF q.out.kind = "rejected" THEN ValidationResponse(q.out.details)
    ELSE IF q.out.kind = "threw" THEN errorHandler(q.out.error, mode)
    ELSE IF q.out.kind = "unrouted" THEN NotFoundResponse
    ELSE IF q.op = "list"
    THEN [status |-> 200,
          body |-> [success |-> TRUE, count |-> Cardinality(q.out.value),
                    data |-> q.out.value]]
    ELSE IF q.op = "byZip"
    THEN [status |-> 200,
          body |-> [success |-> TRUE, count |-> Cardinality(q.out.value),
                    zipCode |-> q.body.zipCode, data |-> q.out.value]]
    ELSE IF q.op = "get"
    THEN [status |-> 200, body |-> [success |-> TRUE, data |-> q.out.value]]
    ELSE [status |-> SuccessStatus(q.op),
          body |-> [success |-> TRUE, message |-> SuccessMessage(q.op),
                    data |-> q.out.value]]

(***************************************************************************)
(* The pipeline: requests arrive and run concurrently, one step at a time. *)
(***************************************************************************)
Step(r, p) ==
    \/ StartCreate(r, p)
    \/ CreateFetched(r, p)
    \/ RepoCreateSet(r)
    \/ RepoCreateRead(r)
    \/ StartUpdate(r, p)
    \/ UpdateFindById(r)
    \/ UpdateFetched(r, p)
    \/ RepoUpdateExists(r)
    \/ RepoUpdateWrite(r)
    \/ RepoUpdateRead(r)
    \/ StartRefresh(r)
    \/ RefreshFindById(r)
    \/ RefreshFetched(r, p)
    \/ StartDelete(r)
    \/ RepoDeleteRead(r)
    \/ RepoDeleteRemove(r)
    \/ StartList(r)
    \/ ListRead(r)
    \/ StartGet(r)
    \/ GetFindById(r)
    \/ StartByZip(r, p)
    \/ ByZipRead(r)
    \/ StartUnknown(r)

Next == \E r \in 1..NumConc : Step(r, Lean)

Spec == Init /\ [][Next]_vars

\* One request runs alone, with any of the inputs and provider failures.
NextOne == Step(1, Rich)

SpecOne == Init /\ [][NextOne]_vars

\* Requests that only create and list, all of them concurrently.
NextCreate ==
    \E r \in Requests :
        \/ StartCreate(r, LeanCreate)
        \/ CreateFetched(r, LeanCreate)
        \/ RepoCreateSet(r)
        \/ RepoCreateRead(r)
        \/ StartList(r)
        \/ ListRead(r)

\* These runs start on an empty store.
InitCreate == Init /\ store = EmptyStore

SpecCreate == InitCreate /\ [][NextCreate]_vars

(***************************************************************************)
(* Creates whose store write may fail.                                     *)
(***************************************************************************)
\* Messages the store may reject a write with.
StoreFaultMessages ==
    {"PERMISSION_DENIED: Permission denied", "disk quota exceeded",
     "write timeout", "Realtime Database API is disabled",
     "Firebase connection lost"}

\* newUserRef.set(newUser) rejects: UserRepository.create wraps the error and
\* createUser's catch block rethrows it, tagged or not.
RepoCreateSetFails(r) ==
    /\ req[r].pc = "set"
    /\ \E message \in StoreFaultMessages :
          req' = [req EXCEPT ![r] =
                     Finish(@, Threw(TagGeolocationError(
                                   NewError("Failed to create user: " \o message))))]
    /\ UNCHANGED <<store, nextKey, clock, err, nodeEnv, res, formatVars, clientVars>>

\* One create runs alone, with any of the inputs; its write may fail.
NextStoreFault ==
    \/ StartCreate(1, Rich)
    \/ CreateFetched(1, Rich)
    \/ RepoCreateSet(1)
    \/ RepoCreateSetFails(1)
    \/ RepoCreateRead(1)

SpecStoreFault == Init /\ [][NextStoreFault]_vars

(***************************************************************************)
(* A provider whose answer is a function of the zip code.                  *)
(***************************************************************************)
\* The one payload such a provider has for a zip code.
FixedPayload(zip) ==
    IF zip = "12345"
    THEN Payload(407128, -740060, -18000, "New York")
    ELSE Payload(340522, -1182437, -28800, "Los Angeles")

\* Every location a request holds from fetchLocationData is the provider's
\* one answer for the zip code the request asked for.
FixedAnswers ==
    \A r \in Requests :
        (req[r].op \in {"create", "update", "refresh"} /\ req[r].zip # "")
            => \A k \in (DOMAIN req[r].data)
                          \cap {"latitude", "longitude", "timezone",
                                "timezoneOffset", "city"} :
                   req[r].data[k] = LocationData(FixedPayload(req[r].zip))[k]

\* The concurrent requests of Next, served by such a provider.
NextFixed == \E r \in 1..NumConc : Step(r, Lean) /\ FixedAnswers'

SpecFixed == Init /\ [][NextFixed]_vars

(***************************************************************************)
(* errorHandler on its own: any error object, under any runtime mode.      *)
(***************************************************************************)
ErrorNames == {"Error", "ValidationError", "CastError"}

ErrorCodes ==
    {[type |-> "number", n |-> 11000], [type |-> "number", n |-> 500],
     [type |-> "string", s |-> "ECONNABORTED"], [type |-> "string", s |-> "11000"]}

ErrorStatusCodes == {400, 401, 403, 404, 409, 422, 500, 503}

ErrorMessages ==
    {"", "User not found", "Bad request data", "Something went wrong",
     "Request timeout - OpenWeather API is not responding",
     "Timeout while saving", "Firebase connection failed",
     "Failed to create user: database unavailable",
     "OpenWeather API error: Unknown error", "Zip code 12345 not found",
     "Database connection timeout", "OpenWeather database is down"}

\* Error objects: name and message, statusCode and code each set or not.
Errors ==
    {Merge(Merge([name |-> n, message |-> m], sc), c) :
        n \in ErrorNames, m \in ErrorMessages,
        sc \in {EmptyObj} \cup {[statusCode |-> x] : x \in ErrorStatusCodes},
        c \in {EmptyObj} \cup {[code |-> x] : x \in ErrorCodes}}

InitHandler ==
    /\ FormatIdle
    /\ ClientIdle
    /\ store = EmptyStore
    /\ nextKey = 0
    /\ clock = 0
    /\ req = [r \in Requests |-> Idle]
    /\ err \in Errors
    /\ nodeEnv \in NodeEnvs
    /\ res = NoResponse

\* next(err): errorHandler answers.
Handle ==
    /\ res = NoResponse
    /\ res' = errorHandler(err, nodeEnv)
    /\ UNCHANGED <<store, nextKey, clock, req, err, nodeEnv, formatVars, clientVars>>

SpecHandler == InitHandler /\ [][Handle]_vars

(***************************************************************************)
(* formatTimezoneOffset on its own: any offset a timezone can have.        *)
(***************************************************************************)
\* The largest offset, in seconds, on either side of UTC: fourteen hours.
MaxOffset == 50400

Offsets == (0 - MaxOffset)..MaxOffset

InitFormat ==
    /\ ClientIdle
    /\ store = EmptyStore
    /\ nextKey = 0
    /\ clock = 0
    /\ req = [r \in Requests |-> Idle]
    /\ err = NoError
    /\ nodeEnv = "production"
    /\ res = NoResponse
    /\ offset \in Offsets
    /\ formatted = NoLabel

\* this.formatTimezoneOffset(timezone)
Format ==
    /\ formatted = NoLabel
    /\ formatted' = formatTimezoneOffset(offset)
    /\ UNCHANGED <<store, nextKey, clock, req, err, nodeEnv, res, offset, clientVars>>

SpecFormat == InitFormat /\ [][Format]_vars

(***************************************************************************)
(* The client: the users query and the mutation hooks of the users page,   *)
(* over the server above.  The request of mutation m takes the request     *)
(* number m; the requests of a bulk delete take the numbers from m on.     *)
(***************************************************************************)
\* Object.entries(users) of the keys up to the n-th, in key order.
RECURSIVE UsersUpTo(_, _)
UsersUpTo(s, n) ==
    IF n = 0 THEN <<>>
    ELSE UsersUpTo(s, n - 1)
            \o (IF Key(n) \in DOMAIN s THEN <<WithId(Key(n), s)>> ELSE <<>>)

\* res.data of GET /api/users: { success, count, data }.
UsersResponse(s) ==
    LET users == UsersUpTo(s, nextKey)
    IN  [success |-> TRUE, count |-> Len(users), data |-> users]

\* What Date.now() may return while a mutation starts.
ClientTimes == {1700000005, 1700000006}

\* The payloads the form submits: one the server accepts and one it refuses.
ClientCreates == {[name |-> "Bo", zipCode |-> "12345"], [name |-> "B", zipCode |-> "1234"]}

ClientUpdates ==
    {[id |-> id, updates |-> u] :
        id \in TargetIds, u \in {[name |-> "Cy"], [zipCode |-> "90210"]}}

\* The selections a bulk delete is given.
ClientIdLists == {<<Key(1)>>, <<Key(1), Key(2)>>, <<Key(2), Key(2)>>}

\* deletedIds.includes(id)
IncludesId(ids, id) == \E i \in 1..Len(ids) : ids[i] = id

\* A JavaScript array as an object: its indices and its length.
JsArray(items) ==
    [k \in {"length"} \cup {ToString(i - 1) : i \in 1..Len(items)} |->
        IF k = "length" THEN Len(items)
        ELSE items[CHOOSE i \in 1..Len(items) : ToString(i - 1) = k]]

\* object.key: undefined for a key the object does not have.
Get(object, key) == IF Has(object, key) THEN object[key] ELSE Undefined

\* The entry useCreateUser adds to the cached list.
TempUser(newUser, now) ==
    [id |-> "temp-" \o ToString(now),
     name |-> newUser.name,
     zipCode |-> newUser.zipCode,
     latitude |-> Undefined,
     longitude |-> Undefined,
     timezone |-> Undefined,
     timezoneOffset |-> "Loading...",
     createdAt |-> now,
     updatedAt |-> now]

\* useCreateUser.onMutate: the optimistic list.
OptimisticCreate(previousUsers, newUser, now) ==
    Merge(previousUsers,
          [data |-> Append(previousUsers.data, TempUser(newUser, now)),
           count |-> Len(previousUsers.data) + 1])

\* useUpdateUser.onMutate: the optimistic list.
OptimisticUpdate(previousUsers, id, updates, now) ==
    LET Loading(user) ==
            IF Has(updates, "zipCode") /\ updates.zipCode # ""
               /\ ~(Has(user, "zipCode") /\ updates.zipCode = user.zipCode)
            THEN [latitude |-> Undefined, longitude |-> Undefined,
                  timezoneOffset |-> "Loading..."]
            ELSE EmptyObj
        Updated(user) ==
            Merge(Merge(Merge(user, updates), Loading(user)), [updatedAt |-> now])
    IN  Merge(previousUsers,
              [data |-> [i \in 1..Len(previousUsers.data) |->
                            IF previousUsers.data[i].id = id
                            THEN Updated(previousUsers.data[i])
                            ELSE previousUsers.data[i]]])

\* useDeleteUser.onMutate: the optimistic list.
OptimisticDelete(previousUsers, deletedId) ==
    LET Kept(user) == user.id # deletedId
    IN  Merge(previousUsers,
              [data |-> SelectSeq(previousUsers.data, Kept),
               count |-> Len(previousUsers.data) - 1])

\* useDeleteUsers.onMutate: the optimistic list.
OptimisticDeleteMany(previousUsers, deletedIds) ==
    LET Kept(user) == ~IncludesId(deletedIds, user.id)
    IN  Merge(previousUsers,
              [data |-> SelectSeq(previousUsers.data, Kept),
               count |-> Len(previousUsers.data) - Len(deletedIds)])

\* A mutation after onMutate: its variables, the ids its requests name, the
\* context onMutate returned, how many of its requests have failed, what
\* mutationFn resolved with, and the warning the page has shown for it.
Pending(kind, variables, ids, previousUsers) ==
    [pc |-> "pending", kind |-> kind, variables |-> variables, ids |-> ids,
     context |-> [previousUsers |-> previousUsers], failed |-> 0,
     data |-> Undefined, alert |-> ""]

\* The request number of the i-th request of mutation m.
Slot(m, i) == m + i - 1

\* Mutations start in the order of their numbers.
MayStart(m) ==
    /\ mut[m].pc = "idle"
    /\ m > 1 => mut[m - 1].pc # "idle"

\* onMutate of a hook: cancelQueries, the snapshot, and the optimistic list
\* when there is a cached one.
OnMutate(m, kind, variables, ids, optimistic) ==
    /\ MayStart(m)
    /\ stale' = FALSE
    /\ cache' = IF cache # Undefined THEN optimistic ELSE cache
    /\ mut' = [mut EXCEPT ![m] = Pending(kind, variables, ids, cache)]
    /\ UNCHANGED <<store, nextKey, clock, req, err, nodeEnv, res, formatVars>>

MutateCreate(m) ==
    \E newUser \in ClientCreates, now \in ClientTimes :
        OnMutate(m, "create", newUser, <<>>,
                 IF cache # Undefined THEN OptimisticCreate(cache, newUser, now)
                 ELSE cache)

MutateUpdate(m) ==
    \E v \in ClientUpdates, now \in ClientTimes :
        OnMutate(m, "update", v, <<v.id>>,
                 IF cache # Undefined THEN OptimisticUpdate(cache, v.id, v.updates, now)
                 ELSE cache)

MutateDelete(m) ==
    \E deletedId \in TargetIds :
        OnMutate(m, "delete", deletedId, <<deletedId>>,
                 IF cache # Undefined THEN OptimisticDelete(cache, deletedId)
                 ELSE cache)

MutateDeleteMany(m) ==
    \E deletedIds \in ClientIdLists :
        OnMutate(m, "deleteMany", deletedIds, deletedIds,
                 IF cache # Undefined THEN OptimisticDeleteMany(cache, deletedIds)
                 ELSE cache)

\* How the provider may answer the server while the client's requests run.
ClientFaults == {f \in TransportFaults : f.code = "ERR_NETWORK"}

\* What the mutationFn of the pending mutation m sends.
ClientCalls(m) ==
    [creates |-> IF mut[m].kind = "create" THEN {Call("http", mut[m].variables)} ELSE {},
     updates |-> IF mut[m].kind = "update"
                 THEN {Call("http", mut[m].variables.updates)} ELSE {},
     zips |-> {},
     faults |-> ClientFaults]

\* The server receives a request of the pending mutation m.
ServerReceives(m) ==
    /\ mut[m].pc = "pending"
    /\ \/ mut[m].kind = "create" /\ StartCreate(Slot(m, 1), ClientCalls(m))
       \/ mut[m].kind = "update" /\ StartUpdate(Slot(m, 1), ClientCalls(m))
                                 /\ req'[Slot(m, 1)].id = mut[m].variables.id
       \/ \E i \in 1..Len(mut[m].ids) :
             /\ mut[m].kind \in {"delete", "deleteMany"}
             /\ StartDelete(Slot(m, i))
             /\ req'[Slot(m, i)].id = mut[m].ids[i]

\* The server works on a request it has received.
ServerStep ==
    /\ \E m \in Mutations : mut[m].pc # "idle"
    /\ \E r \in Requests :
          LET p == [creates |-> {}, updates |-> {}, zips |-> {}, faults |-> ClientFaults]
          IN  \/ CreateFetched(r, p)
              \/ RepoCreateSet(r)
              \/ RepoCreateRead(r)
              \/ UpdateFindById(r)
              \/ UpdateFetched(r, p)
              \/ RepoUpdateExists(r)
              \/ RepoUpdateWrite(r)
              \/ RepoUpdateRead(r)
              \/ RepoDeleteRead(r)
              \/ RepoDeleteRemove(r)

\* axios resolves for a status of 200..299 and rejects for any other.
Resolves(q) == Response(q, nodeEnv).status \in 200..299

\* mutationFn of create, update and delete: the response arrives and its
\* body is returned, or the request is rejected.
Responded(m) ==
    /\ mut[m].pc = "pending"
    /\ mut[m].kind # "deleteMany"
    /\ req[Slot(m, 1)].pc = "done"
    /\ mut' = [mut EXCEPT ![m] =
                  IF Resolves(req[Slot(m, 1)])
                  THEN [@ EXCEPT !.pc = "resolved",
                                 !.data = Response(req[Slot(m, 1)], nodeEnv).body]
                  ELSE [@ EXCEPT !.pc = "rejected", !.failed = 1]]
    /\ UNCHANGED <<store, nextKey, clock, req, err, nodeEnv, res, formatVars,
                   cache, stale>>

\* mutationFn of create, update and delete: the connection fails before a
\* response has arrived, whatever the server has done or goes on to do.
ConnectionLost(m) ==
    /\ mut[m].pc = "pending"
    /\ mut[m].kind # "deleteMany"
    /\ req[Slot(m, 1)].pc # "done"
    /\ mut' = [mut EXCEPT ![m] = [@ EXCEPT !.pc = "rejected", !.failed = 1]]
    /\ UNCHANGED <<store, nextKey, clock, req, err, nodeEnv, res, formatVars,
                   cache, stale>>

\* The result Promise.allSettled gives for one delete.
SettledResult(q, isLost) ==
    IF ~isLost /\ Resolves(q)
    THEN [status |-> "fulfilled", value |-> [status |-> Response(q, nodeEnv).status]]
    ELSE [status |-> "rejected"]

\* mutationFn of bulk delete: Promise.allSettled resolves once every delete
\* has been answered or has lost its connection, and the array of results,
\* rejected ones among them, is returned.
AllSettled(m) ==
    /\ mut[m].pc = "pending"
    /\ mut[m].kind = "deleteMany"
    /\ \E lost \in SUBSET (1..Len(mut[m].ids)) :
          LET results == [i \in 1..Len(mut[m].ids) |->
                             SettledResult(req[Slot(m, i)], i \in lost)]
          IN  /\ \A i \in 1..Len(mut[m].ids) : i \in lost <=> req[Slot(m, i)].pc # "done"
              /\ mut' = [mut EXCEPT ![m] =
                            [@ EXCEPT
                                !.pc = "resolved",
                                !.failed = Cardinality({i \in 1..Len(results) :
                                                           results[i].status = "rejected"}),
                                !.data = JsArray(results)]]
    /\ UNCHANGED <<store, nextKey, clock, req, err, nodeEnv, res, formatVars,
                   cache, stale>>

\* onSuccess as the users page passes it: () => refetch(), awaited; the
\* fetch may fail and leave the cached list.
OnSuccess(m) ==
    /\ mut[m].pc = "resolved"
    /\ cache' \in {UsersResponse(store), cache}
    /\ mut' = [mut EXCEPT ![m] = [@ EXCEPT !.pc = "settling"]]
    /\ UNCHANGED <<store, nextKey, clock, req, err, nodeEnv, res, formatVars, stale>>

\* An onError that leaves the cache as it is.
OnErrorKeeps(m) ==
    /\ mut[m].pc = "rejected"
    /\ mut' = [mut EXCEPT ![m] = [@ EXCEPT !.pc = "settling"]]
    /\ UNCHANGED <<store, nextKey, clock, req, err, nodeEnv, res, formatVars,
                   cache, stale>>

\* onError of the four hooks: the rollback.
OnError(m) ==
    /\ mut[m].pc = "rejected"
    /\ cache' = IF mut[m].context.previousUsers # Undefined
                THEN mut[m].context.previousUsers ELSE cache
    /\ mut' = [mut EXCEPT ![m] = [@ EXCEPT !.pc = "settling"]]
    /\ UNCHANGED <<store, nextKey, clock, req, err, nodeEnv, res, formatVars, stale>>

\* onSettled of the four hooks: invalidateQueries.
OnSettled(m) ==
    /\ mut[m].pc = "settling"
    /\ stale' = TRUE
    /\ mut' = [mut EXCEPT ![m] = [@ EXCEPT !.pc = "settled"]]
    /\ UNCHANGED <<store, nextKey, clock, req, err, nodeEnv, res, formatVars, cache>>

\* The warning the page shows for a bulk delete that resolved with data.
BulkWarning(data) ==
    IF Get(data, "failed") # Undefined /\ Get(data, "failed") > 0
    THEN "Warning: " \o ToString(Get(data, "failed")) \o " of "
            \o (IF Get(data, "total") # Undefined THEN ToString(Get(data, "total"))
                ELSE "undefined")
            \o " deletions failed"
    ELSE ""

\* onSuccess as onBulkDelete passes it to mutate(): it runs after the hook's
\* own handlers, with what mutationFn returned.
BulkOnSuccess(m) ==
    /\ mut[m].pc = "settled"
    /\ mut[m].kind = "deleteMany"
    /\ mut' = [mut EXCEPT ![m] = [@ EXCEPT !.pc = "reported",
                                           !.alert = BulkWarning(mut[m].data)]]
    /\ UNCHANGED <<store, nextKey, clock, req, err, nodeEnv, res, formatVars,
                   cache, stale>>

\* queryFn of useUsers: the list is fetched and cached (a fetch that fails
\* changes nothing).
Refetch ==
    /\ stale
    /\ cache' = UsersResponse(store)
    /\ stale' = FALSE
    /\ UNCHANGED <<store, nextKey, clock, req, err, nodeEnv, res, formatVars, mut>>

\* The page has mounted: the first fetch of the users query is due.
InitClient ==
    /\ FormatIdle
    /\ \E s \in InitialStores :
          /\ store = s.store
          /\ nextKey = s.nextKey
          /\ clock = s.clock
    /\ req = [r \in Requests |-> Idle]
    /\ err = NoError
    /\ nodeEnv = "production"
    /\ res = NoResponse
    /\ cache = Undefined
    /\ stale = TRUE
    /\ mut = [m \in Mutations |-> NoMutation]

\* One mutation of any of the four kinds runs on its own.
NextClient ==
    \/ Refetch
    \/ MutateCreate(1)
    \/ MutateUpdate(1)
    \/ MutateDelete(1)
    \/ MutateDeleteMany(1)
    \/ ServerReceives(1)
    \/ ServerStep
    \/ Responded(1)
    \/ ConnectionLost(1)
    \/ AllSettled(1)
    \/ OnSuccess(1)
    \/ OnError(1)
    \/ OnSettled(1)
    \/ BulkOnSuccess(1)

SpecClient == InitClient /\ [][NextClient]_vars

\* Create, update and delete mutations that may overlap.
NextOverlap ==
    \/ Refetch
    \/ ServerStep
    \/ \E m \in Mutations :
          \/ MutateCreate(m)
          \/ MutateUpdate(m)
          \/ MutateDelete(m)
          \/ ServerReceives(m)
          \/ Responded(m)
          \/ ConnectionLost(m)
          \/ OnSuccess(m)
          \/ OnError(m)
          \/ OnSettled(m)

SpecOverlap == InitClient /\ [][NextOverlap]_vars

(***************************************************************************)
(* Properties of the pipeline and of errorHandler.                         *)
(***************************************************************************)
\* A create request that ended in an error or in the validator's refusal.
FailedCreate(q) == q.op = "create" /\ q.pc = "done" /\ q.out.kind # "returned"

\* The store, its key generator and its clock are as the run found them.
StoreUntouched ==
    \E s \in InitialStores :
        store = s.store /\ nextKey = s.nextKey /\ clock = s.clock

\* The record createUser hands to the repository is the trimmed name and zip
\* code with the location of one payload the provider has for that zip code.
CompleteUserData(data) ==
    /\ Has(data, "name") /\ Has(data, "zipCode")
    /\ \E d \in ProviderPayloads(data.zipCode) :
          data = Merge([name |-> data.name, zipCode |-> data.zipCode],
                       LocationFields(LocationData(d)))

\* C1: a create request that fails before the store write (a missing name or
\* zip code, a zip code that is not 5 digits after trimming, the validator's
\* refusal, or any failure of the enrichment call) has written nothing and
\* leaves the store as it was; the repository's create is entered only after
\* the enrichment call has succeeded, with the complete record.
C1_FailedCreateLeavesStore ==
    \A r \in Requests :
        /\ FailedCreate(req[r]) => req[r].writes = 0 /\ StoreUntouched
        /\ (req[r].op = "create" /\ (req[r].pc = "set" \/ req[r].writes > 0))
              => req[r].reply.kind = "ok"
        /\ (req[r].op = "create" /\ req[r].pc = "set")
              => CompleteUserData(req[r].data)

\* A create failed on the enrichment call, on a store that holds a record.
C1_Witness ==
    \E r \in Requests :
        /\ FailedCreate(req[r])
        /\ req[r].calls = 1
        /\ req[r].reply.kind = "transport"
        /\ Key(1) \in DOMAIN store

\* A create request that ended with the record it created.
CreatedBy(q) == q.op = "create" /\ q.pc = "done" /\ q.out.kind = "returned"

\* The body of a create request passes the validator (when the request goes
\* through the route) and the checks of createUser.
ValidCreateInput(q) ==
    /\ q.via = "http" => validateCreateUser(q.body).details = <<>>
    /\ ~Falsy(q.body, "name") /\ ~Falsy(q.body, "zipCode")
    /\ isValidZipCode(Trim(q.body.zipCode))

\* No request is between its arrival and its end.
Quiet(rq) == \A o \in Requests : rq[o].pc \in {"idle", "done"}

\* C2: of create requests that run concurrently, each one with a valid body
\* that the provider answers ends with status 201 and the record under its own
\* id, no two of them get the same id, and a list request that reads the store
\* when all of them have ended returns exactly their records, with count
\* their number.
C2_ConcurrentCreates ==
    [][/\ \A r \in Requests :
            (req'[r].op = "create" /\ req'[r].pc = "done"
                /\ ValidCreateInput(req'[r]) /\ req'[r].reply.kind = "ok")
               => /\ CreatedBy(req'[r])
                  /\ \A mode \in NodeEnvs :
                        /\ Response(req'[r], mode).status = 201
                        /\ Response(req'[r], mode).body.success
                  /\ Has(req'[r].out.value, "id")
                  /\ Has(req'[r].out.value, "zipCode")
                  /\ req'[r].out.value.zipCode = Trim(req'[r].body.zipCode)
       /\ \A r1, r2 \in Requests :
            (r1 # r2 /\ CreatedBy(req'[r1]) /\ CreatedBy(req'[r2]))
               => req'[r1].out.value.id # req'[r2].out.value.id
       /\ \A r \in Requests :
            (req[r].pc = "findAll" /\ req'[r].pc = "done"
                /\ Quiet([req EXCEPT ![r] = Idle]))
               => LET created == {o \in Requests : CreatedBy(req[o])}
                  IN  /\ req'[r].out.kind = "returned"
                      /\ req'[r].out.value = {req[o].out.value : o \in created}
                      /\ \A mode \in NodeEnvs :
                            /\ Response(req'[r], mode).status = 200
                            /\ Response(req'[r], mode).body.count
                                  = Cardinality(created)
      ]_vars

\* Every request but one created a record, and the list request that ran after
\* them returned that many.
C2_Witness ==
    \E r \in Requests :
        /\ req[r].op = "list" /\ req[r].pc = "done"
        /\ \A o \in Requests \ {r} : CreatedBy(req[o])
        /\ Cardinality(req[r].out.value) = NumReq - 1
        /\ Response(req[r], nodeEnv).body.count = NumReq - 1

\* C3: every record present in the store has a zipCode of exactly 5 digits,
\* after any interleaving of create, update, refresh-location and delete
\* requests.
C3_StoredZipIsFiveDigits ==
    \A id \in DOMAIN store :
        Has(store[id], "zipCode") /\ ZipPattern(store[id].zipCode)

\* The value a record of a store has for a field: {v}, or {} when the record
\* or the field is absent.
FieldOf(s, id, f) == IF id \in DOMAIN s /\ Has(s[id], f) THEN {s[id][f]} ELSE {}

EnrichedFields == {"latitude", "longitude", "timezone", "timezoneOffset", "city"}

\* The object holds the five enriched fields of one payload the provider has
\* for the zip code.
EnrichedFor(object, zipCode) ==
    \E d \in ProviderPayloads(zipCode) :
        \A f \in EnrichedFields :
            Has(object, f) /\ object[f] = LocationData(d)[f]

\* An update request whose enrichment call failed.
EnrichmentFailed(q) == q.op = "update" /\ q.reply.kind \in {"response", "transport"}

\* C4: a store write that changes a record's zipCode writes, in the same
\* write, the latitude, longitude, timezone, timezoneOffset and city of one
\* enrichment result for the new zip code; the update set of an update that
\* carries a zipCode is of that form; and an update whose enrichment call
\* fails writes nothing of its payload, its name included.
C4_ZipChangeWritesOneEnrichment ==
    [][/\ \A id \in DOMAIN store' :
            FieldOf(store', id, "zipCode") # FieldOf(store, id, "zipCode")
               => /\ Has(store'[id], "zipCode")
                  /\ EnrichedFor(store'[id], store'[id].zipCode)
       /\ \A r \in Requests :
            (req[r].op = "update" /\ req[r].pc = "write" /\ req'[r].pc = "updated"
                /\ Has(req[r].data, "zipCode"))
               => /\ isValidZipCode(req[r].data.zipCode)
                  /\ EnrichedFor(req[r].data, req[r].data.zipCode)
                  /\ \A f \in DOMAIN req[r].data :
                        FieldOf(store', req[r].id, f) = {req[r].data[f]}
       /\ \A r \in Requests :
            EnrichmentFailed(req'[r])
               => /\ req'[r].pc = "done"
                  /\ req'[r].out.kind = "threw"
                  /\ req'[r].writes = 0
                  /\ req[r].pc = "fetch" => store' = store
      ]_vars

\* The record the run started with has been moved to another zip code.
C4_Witness ==
    /\ Key(1) \in DOMAIN store
    /\ store[Key(1)].createdAt = 1
    /\ Has(store[Key(1)], "zipCode")
    /\ store[Key(1)].zipCode = "90210"
    /\ store[Key(1)].city \in {"Los Angeles", "Beverly Hills"}
    /\ \E r \in Requests :
          req[r].op = "update" /\ req[r].pc = "done" /\ req[r].writes = 1

\* C5: in createUser every error of the enrichment call (an upstream 404,
\* 401, 429 or other status, a timeout, a network failure with any message)
\* leaves the service with statusCode 400.
C5_EnrichmentErrorsTagged400 ==
    \A r \in Requests :
        (req[r].op = "create" /\ req[r].pc = "done"
            /\ req[r].reply.kind \in {"response", "transport"})
           => /\ req[r].out.kind = "threw"
              /\ HasStatusCode(req[r].out.error)
              /\ req[r].out.error.statusCode = 400

\* A request to which the provider answered 404.
ProviderSaidNotFound(q) == q.reply.kind = "response" /\ q.reply.status = 404

\* C6: when the provider answers 404 during a POST /api/users whose payload
\* is valid, the response is HTTP 400 with success false and a message that
\* contains 'not found', under every runtime mode, and no record is created.
C6_ProviderNotFoundIs400 ==
    \A r \in Requests :
        (req[r].op = "create" /\ req[r].via = "http" /\ req[r].pc = "done"
            /\ ValidCreateInput(req[r]) /\ ProviderSaidNotFound(req[r]))
           => /\ \A mode \in NodeEnvs :
                    LET response == Response(req[r], mode)
                    IN  /\ response.status = 400
                        /\ response.body.success = FALSE
                        /\ Has(response.body, "message")
                        /\ Includes(response.body.message, "not found")
              /\ req[r].writes = 0
              /\ StoreUntouched

\* A valid POST ended after the provider's 404.
C6_Witness ==
    \E r \in Requests :
        /\ req[r].op = "create" /\ req[r].via = "http" /\ req[r].pc = "done"
        /\ ValidCreateInput(req[r]) /\ ProviderSaidNotFound(req[r])
        /\ Response(req[r], nodeEnv).body.message = "Zip code 12345 not found"

\* errorHandler has answered for err.
Handled == res # NoResponse

\* The category label the claims give for a status code.
StatusLabel(statusCode) ==
    IF statusCode = 400 THEN "Bad Request"
    ELSE IF statusCode = 401 THEN "Unauthorized"
    ELSE IF statusCode = 403 THEN "Forbidden"
    ELSE IF statusCode = 404 THEN "Not Found"
    ELSE "Error"

\* C7: for every error that carries an explicit statusCode, errorHandler
\* answers with exactly that status and the error's own message, with the
\* fixed label of 400, 401, 403 and 404, whatever the error's name, code or
\* message.
C7_ExplicitStatusCodeWins ==
    (Handled /\ HasStatusCode(err))
       => /\ res.status = err.statusCode
          /\ err.message # "" => res.body.message = err.message
          /\ err.statusCode \in {400, 401, 403, 404}
                => res.body.error = StatusLabel(err.statusCode)

\* The wording tests of the chain.
TimeoutWording(e) ==
    CodeIsString(e, "ECONNABORTED") \/ TestIgnoreCase(e.message, "timeout")

StorageWording(e) ==
    TestIgnoreCase(e.message, "firebase") \/ TestIgnoreCase(e.message, "database")

\* errorHandler answered with this status, label and message.
Answered(status, label, message) ==
    res.status = status /\ res.body.error = label /\ res.body.message = message

OwnMessage(e) == IF e.message = "" THEN "Internal Server Error" ELSE e.message

C9_StorageMessageMaskedInProductionOnly ==
    (Handled /\ StorageWording(err) /\ ~TimeoutWording(err)
        /\ err.name = "Error" /\ ~Has(err, "code"))
       => /\ res.status = 500
          /\ res.body.error = "Database Error"
          /\ res.body.message = IF nodeEnv = "production" THEN DatabaseMessage
                                ELSE err.message

\* The fields a record can hold.
RecordFields ==
    {"name", "zipCode", "createdAt", "updatedAt", "locationUpdatedAt"}
        \cup EnrichedFields

\* The payload updateUser is given for request q carries a name and no zip
\* code, or a zip code equal to the one stored under the id.
NameOnlyPayload(q, s) ==
    /\ q.id \in DOMAIN s
    /\ Has(q.data, "name")
    /\ DOMAIN q.data \subseteq {"name", "zipCode"}
    /\ Has(q.data, "zipCode")
          => Has(s[q.id], "zipCode") /\ q.data.zipCode = s[q.id].zipCode

\* An update request past findById that has made no enrichment call.
UnenrichedUpdate(q) ==
    q.op = "update" /\ q.pc \in {"exists", "write", "updated"} /\ q.calls = 0

\* C10: an update whose payload carries only a name, or a name and a zip code
\* equal to the stored one, makes no enrichment call and writes only name
\* and updatedAt; zipCode and the location fields of the record stay as they
\* were.
C10_NameOnlyUpdate ==
    [][\A r \in Requests :
          /\ (req[r].op = "update" /\ req[r].pc = "findById"
                 /\ req'[r].pc # "findById" /\ NameOnlyPayload(req[r], store))
                => /\ req'[r].pc = "exists"
                   /\ req'[r].calls = 0
                   /\ req'[r].data = [name |-> Trim(req[r].data.name)]
          /\ UnenrichedUpdate(req[r])
                => /\ DOMAIN req[r].data = {"name"}
                   /\ req'[r].calls = 0
                   /\ req'[r].pc # "done" => req'[r].data = req[r].data
                   /\ (req[r].pc = "write" /\ req'[r].pc = "updated")
                         => /\ FieldOf(store', req[r].id, "name") = {req[r].data.name}
                            /\ \A f \in RecordFields \ {"name", "updatedAt"} :
                                  FieldOf(store', req[r].id, f)
                                     = FieldOf(store, req[r].id, f)
                            /\ \A id \in (DOMAIN store \cup DOMAIN store') \ {req[r].id} :
                                  /\ id \in DOMAIN store /\ id \in DOMAIN store'
                                  /\ store'[id] = store[id]
      ]_vars

\* An update that carried a name and the stored zip code ended; it made no
\* enrichment call and one write, and the record has the new name and its old
\* zip code and city.
C10_Witness ==
    \E r \in Requests :
        /\ req[r].op = "update" /\ req[r].pc = "done"
        /\ req[r].body = [name |-> " Bo ", zipCode |-> "12345"]
        /\ req[r].out.kind = "returned"
        /\ req[r].calls = 0 /\ req[r].writes = 1
        /\ req[r].id \in DOMAIN store
        /\ store[req[r].id].name = "Bo"
        /\ FieldOf(store, req[r].id, "zipCode") = {"12345"}
        /\ FieldOf(store, req[r].id, "city") = {"New York"}

\* The payload updateUser is given for request q puts nothing in the update
\* set: it has no name, and no zip code or the zip code stored under the id.
EmptyUpdatePayload(q, s) ==
    /\ q.id \in DOMAIN s
    /\ ~Has(q.data, "name")
    /\ \/ Falsy(q.data, "zipCode")
       \/ Has(s[q.id], "zipCode") /\ q.data.zipCode = s[q.id].zipCode

\* C11: an update of an existing record whose payload yields an empty update
\* set (an empty body, or only the zip code already stored) fails with the 400
\* error 'No valid updates provided', makes no enrichment call and no store
\* write, and leaves the record, its updatedAt included, as it was.
C11_EmptyUpdateRefused ==
    [][\A r \in Requests :
          (req[r].op = "update" /\ req[r].pc = "findById"
              /\ req'[r].pc # "findById" /\ EmptyUpdatePayload(req[r], store))
             => /\ req'[r].pc = "done"
                /\ req'[r].out = Threw(Tagged(NewError("No valid updates provided"), 400))
                /\ req'[r].calls = 0
                /\ req'[r].writes = 0
                /\ store' = store /\ clock' = clock
                /\ \A mode \in NodeEnvs :
                      LET response == Response(req'[r], mode)
                      IN  /\ response.status = 400
                          /\ response.body.success = FALSE
                          /\ response.body.message = "No valid updates provided"
      ]_vars

\* An update that carried only the stored zip code was refused, and the record
\* is as the run started with it.
C11_Witness ==
    \E r \in Requests :
        /\ req[r].op = "update" /\ req[r].pc = "done"
        /\ req[r].body = [zipCode |-> "12345"]
        /\ req[r].out.kind = "threw"
        /\ req[r].out.error.message = "No valid updates provided"
        /\ req[r].id \in DOMAIN store
        /\ store[req[r].id].zipCode = "12345"
        /\ store[req[r].id].updatedAt = 1

\* Request q is at the read of the record it names.
AtRecordRead(q) ==
    \/ q.op \in {"get", "update", "refresh"} /\ q.pc = "findById"
    \/ q.op = "delete" /\ q.pc = "deleteRead"

\* C12: get-by-id, update, delete and refresh-location of an id that is absent
\* from the store each end with the 404 response 'User not found' with success
\* false, make no enrichment call, and leave the store unchanged.
C12_AbsentIdIsNotFound ==
    [][\A r \in Requests :
          (AtRecordRead(req[r]) /\ req'[r].pc # req[r].pc
              /\ req[r].id \notin DOMAIN store)
             => /\ req'[r].pc = "done"
                /\ req'[r].out = Threw(Tagged(NewError("User not found"), 404))
                /\ req'[r].calls = 0
                /\ req'[r].writes = 0
                /\ store' = store /\ clock' = clock /\ nextKey' = nextKey
                /\ \A mode \in NodeEnvs :
                      LET response == Response(req'[r], mode)
                      IN  /\ response.status = 404
                          /\ response.body.success = FALSE
                          /\ response.body.error = "Not Found"
                          /\ response.body.message = "User not found"
      ]_vars

\* Two requests of different kinds ended on an absent id.
C12_Witness ==
    \E r1, r2 \in Requests :
        /\ req[r1].op \in {"get", "update"} /\ req[r2].op \in {"delete", "refresh"}
        /\ req[r1].pc = "done" /\ req[r2].pc = "done"
        /\ req[r1].out = Threw(NotFoundError)
        /\ req[r2].out = Threw(NotFoundError)
        /\ req[r1].id \notin DOMAIN store /\ req[r2].id \notin DOMAIN store

\* A delete request that ended with the record it removed (a 200 response).
DeletedBy(q) == q.op = "delete" /\ q.pc = "done" /\ q.out.kind = "returned"

\* C13: deleting an existing id responds 200 with data equal to the record
\* exactly as it is stored immediately before removal (plus its id): the
\* snapshot a delete holds when it is about to remove is the stored record;
\* and after the 200 response the id is gone from the store, so get-by-id
\* finds nothing and list does not contain it.
C13_DeleteReturnsStoredRecord ==
    \A r \in Requests :
        /\ (req[r].op = "delete" /\ req[r].pc = "remove")
              => /\ req[r].id \in DOMAIN store
                 /\ req[r].data = store[req[r].id]
        /\ DeletedBy(req[r])
              => /\ req[r].id \notin DOMAIN store
                 /\ GetUserChecks([req[r] EXCEPT !.op = "get"], store).out
                       = Threw(NotFoundError)
                 /\ \A u \in AllUsers(store) : u.id # req[r].id

\* C14: refresh-location of an existing id asks the provider for the zip code
\* stored in the record and, on success, overwrites the record's latitude,
\* longitude, timezone, timezoneOffset and city with that result, leaving name
\* and zipCode as they were: the record a successful refresh returns holds the
\* five fields of one provider result for its zip code.
C14_RefreshOverwritesLocation ==
    \A r \in Requests :
        (req[r].op = "refresh" /\ req[r].pc = "done" /\ req[r].out.kind = "returned"
            /\ req[r].reply.kind = "ok" /\ req[r].id \in DOMAIN store)
           => LET user == store[req[r].id]
              IN  /\ req[r].calls = 1
                  /\ \E s \in InitialStores :
                        /\ req[r].id \in DOMAIN s.store
                        /\ user.name = s.store[req[r].id].name
                        /\ user.zipCode = s.store[req[r].id].zipCode
                  /\ EnrichedFor(user, user.zipCode)

\* C15: list-by-zip checks the zip code first: one that is not exactly 5
\* digits is answered 400 with no store read; for a valid one the request
\* returns exactly the stored records whose zipCode is that string, each with
\* its id, and the empty list when there is none.
C15_ListByZip ==
    [][\A r \in Requests :
          /\ (req[r].pc = "idle" /\ req'[r].op = "byZip")
                => LET z == req'[r].body.zipCode
                   IN  IF ZipPattern(z)
                       THEN req'[r].pc = "findByZipCode" /\ req'[r].zip = z
                       ELSE /\ req'[r].pc = "done"
                            /\ req'[r].out.kind = "threw"
                            /\ \A mode \in NodeEnvs :
                                  /\ Response(req'[r], mode).status = 400
                                  /\ Response(req'[r], mode).body.success = FALSE
          /\ (req[r].pc = "findByZipCode" /\ req'[r].pc # "findByZipCode")
                => LET z == req[r].body.zipCode
                       users == req'[r].out.value
                   IN  /\ req'[r].pc = "done" /\ req'[r].out.kind = "returned"
                       /\ store' = store
                       /\ \A u \in users :
                             /\ u.id \in DOMAIN store
                             /\ u = Merge([id |-> u.id], store[u.id])
                             /\ u.zipCode = z
                       /\ \A id \in DOMAIN store :
                             FieldOf(store, id, "zipCode") = {z}
                                => \E u \in users : u.id = id
                       /\ \A mode \in NodeEnvs :
                             /\ Response(req'[r], mode).status = 200
                             /\ Response(req'[r], mode).body.count = Cardinality(users)
      ]_vars

\* A list-by-zip returned nothing from a store whose only record has another
\* zip code, and a list-by-zip returned one record.
C15_Witness ==
    \E r \in Requests :
        /\ req[r].op = "byZip" /\ req[r].pc = "done" /\ req[r].out.kind = "returned"
        /\ \/ /\ req[r].out.value = {}
              /\ \E id \in DOMAIN store :
                    FieldOf(store, id, "zipCode") = {"90210"}
           \/ /\ Cardinality(req[r].out.value) = 1
              /\ Cardinality(DOMAIN store) = 2

\* The rules of each field on its trimmed value ("" for an absent field), as
\* the claim lists them.
FieldRules(field, value) ==
    IF field = "name"
    THEN <<value # "", Len(value) >= 2 /\ Len(value) <= 100, NamePattern(value)>>
    ELSE <<value # "", Len(value) = 5 /\ \A i \in 1..Len(value) :
                                            CharAt(value, i) \in Digits>>

\* The fields the validator of a request checks: both for create, the ones
\* present for update.
CheckedFields(q) ==
    IF q.op = "create" THEN {"name", "zipCode"}
    ELSE {"name", "zipCode"} \cap DOMAIN q.body

\* How many rules of a field the body violates.
Violations(q, field) ==
    LET value == IF Has(q.body, field) THEN Trim(q.body[field]) ELSE ""
        rules == FieldRules(field, value)
    IN  Cardinality({i \in DOMAIN rules : ~rules[i]})

\* C16: the request validator accepts a payload iff every checked field
\* passes its rules after trimming (name: non-empty, length 2 to 100, the name
\* pattern; zipCode: non-empty, exactly 5 digits); create checks both fields
\* and update the fields present; a rejection is a 400 response, the handler
\* is never called, and details holds one entry tagged with the field for
\* every violated rule of every field.
C16_ValidatorCollectsAllViolations ==
    \A r \in Requests :
        (req[r].op \in {"create", "update"} /\ req[r].via = "http")
           => LET q == req[r]
                  rejected == q.pc = "done" /\ q.out.kind = "rejected"
              IN  /\ rejected <=> \E f \in CheckedFields(q) : Violations(q, f) > 0
                  /\ rejected
                        => /\ q.calls = 0 /\ q.writes = 0 /\ StoreUntouched
                           /\ \A mode \in NodeEnvs :
                                 /\ Response(q, mode).status = 400
                                 /\ Response(q, mode).body.success = FALSE
                                 /\ Response(q, mode).body.details = q.out.details
                           /\ \A i \in DOMAIN q.out.details :
                                 q.out.details[i].field \in CheckedFields(q)
                           /\ \A f \in {"name", "zipCode"} :
                                 Cardinality({i \in DOMAIN q.out.details :
                                                 q.out.details[i].field = f})
                                    = IF f \in CheckedFields(q)
                                      THEN Violations(q, f) ELSE 0
                           /\ \A i, j \in DOMAIN q.out.details :
                                 i # j => q.out.details[i] # q.out.details[j]

\* A create with an empty body was refused with all five violations, and an
\* update whose name is one letter with one.
C16_Witness ==
    \E r \in Requests :
        /\ req[r].via = "http" /\ req[r].pc = "done" /\ req[r].out.kind = "rejected"
        /\ \/ req[r].op = "create" /\ req[r].body = EmptyObj
                 /\ Len(req[r].out.details) = 5
           \/ req[r].op = "update" /\ req[r].body = [name |-> "D"]
                 /\ Len(req[r].out.details) = 1

\* C17: every response of the API that is not 2xx (a refusal of the validator,
\* a normalized service error, an unknown route) has the envelope success =
\* false, error = category and message = string, and holds a details list only
\* for validation failures.
C17_ErrorEnvelope ==
    \A r \in Requests, mode \in NodeEnvs :
        (req[r].pc = "done" /\ req[r].via = "http"
            /\ Response(req[r], mode).status >= 300)
           => LET body == Response(req[r], mode).body
              IN  /\ Has(body, "success") /\ body.success = FALSE
                  /\ Has(body, "error")
                  /\ Has(body, "message")
                  /\ Has(body, "details") => req[r].out.kind = "rejected"

\* A create or update request whose enrichment call the provider failed.
FetchFailed(q) ==
    /\ q.op \in {"create", "update"} /\ q.pc = "done"
    /\ q.reply.kind \in {"response", "transport"}

\* The zip code a create or update request sent to the provider.
ZipSent(q) == Trim(q.body.zipCode)

RateLimitMessage == "API rate limit exceeded. Please try again later."

RequestTimeoutMessage == "Request timeout - OpenWeather API is not responding"

\* C18: the enrichment client maps a provider failure, in this order, to:
\* status 404: 'Zip code <zip> not found'; 401: invalid provider credentials;
\* 429: rate limit exceeded; timeout (ECONNABORTED): request timed out; any
\* other failure: 'Failed to fetch location data: <underlying message>'; a
\* response status is looked at before the timeout code, and every failure
\* surfaces as exactly one of these five errors.
C18_FiveFetchErrors ==
    \A r \in Requests :
        FetchFailed(req[r])
           => LET f == req[r].reply
                  message == req[r].out.error.message
              IN  /\ req[r].out.kind = "threw"
                  /\ message \in
                        {"Zip code " \o ZipSent(req[r]) \o " not found",
                         "Invalid API key configuration",
                         RateLimitMessage,
                         RequestTimeoutMessage,
                         "Failed to fetch location data: "
                            \o (IF Has(f, "message") THEN f.message ELSE "")}
                  /\ (f.kind = "response" /\ f.status = 404)
                        => message = "Zip code " \o ZipSent(req[r]) \o " not found"
                  /\ (f.kind = "response" /\ f.status = 401)
                        => message = "Invalid API key configuration"
                  /\ (f.kind = "response" /\ f.status = 429)
                        => message = RateLimitMessage
                  /\ (f.kind = "transport" /\ f.code = "ECONNABORTED")
                        => message = RequestTimeoutMessage
                  /\ (f.kind = "transport" /\ f.code # "ECONNABORTED")
                        => message = "Failed to fetch location data: " \o f.message

\* C18 (amended): as C18, with a sixth error: a response with any other
\* status surfaces as 'OpenWeather API error: <message>', the message being
\* the provider's own or 'Unknown error'; every failure surfaces as exactly
\* one of the six errors.
C18_SixFetchErrors ==
    \A r \in Requests :
        FetchFailed(req[r])
           => LET f == req[r].reply
                  message == req[r].out.error.message
              IN  /\ req[r].out.kind = "threw"
                  /\ (f.kind = "response" /\ f.status = 404)
                        => message = "Zip code " \o ZipSent(req[r]) \o " not found"
                  /\ (f.kind = "response" /\ f.status = 401)
                        => message = "Invalid API key configuration"
                  /\ (f.kind = "response" /\ f.status = 429)
                        => message = RateLimitMessage
                  /\ (f.kind = "response" /\ f.status \notin {404, 401, 429})
                        => message = "OpenWeather API error: "
                              \o (IF Has(f.data, "message") /\ f.data.message # ""
                                  THEN f.data.message ELSE "Unknown error")
                  /\ (f.kind = "transport" /\ f.code = "ECONNABORTED")
                        => message = RequestTimeoutMessage
                  /\ (f.kind = "transport" /\ f.code # "ECONNABORTED")
                        => message = "Failed to fetch location data: " \o f.message

\* A failure that carried both a 429 response and the timeout code surfaced
\* as the rate-limit error.
C18_Witness ==
    \E r \in Requests :
        /\ FetchFailed(req[r])
        /\ req[r].reply.kind = "response" /\ req[r].reply.status = 429
        /\ Has(req[r].reply, "code") /\ req[r].reply.code = "ECONNABORTED"
        /\ req[r].out.error.message = RateLimitMessage

\* The whole hours in a number of seconds: the h with h hours <= n < h+1 hours.
WholeHours(n) == CHOOSE h \in 0..(n \div 3600 + 1) : h * 3600 <= n /\ n < (h + 1) * 3600

\* C19: for every integer offset in seconds formatTimezoneOffset returns 'UTC',
\* then '+' when offset >= 0 and '-' otherwise, then floor(|offset| / 3600):
\* zero gives 'UTC+0', and a remainder below an hour is cut off, never rounded
\* up (-18000 gives 'UTC-5', 3600 gives 'UTC+1').
C19_TimezoneLabel ==
    formatted # NoLabel
       => /\ formatted = "UTC" \o (IF offset >= 0 THEN "+" ELSE "-")
                           \o ToString(WholeHours(IF offset >= 0 THEN offset ELSE 0 - offset))
          /\ offset = 0 => formatted = "UTC+0"
          /\ offset = 0 - 18000 => formatted = "UTC-5"
          /\ offset = 3600 => formatted = "UTC+1"
          /\ offset \in 18000..21599 => formatted = "UTC+5"
          /\ offset \in (0 - 3599)..(0 - 1) => formatted = "UTC-0"

\* An offset half an hour short of six hours was labelled with five.
C19_Witness == offset = 19800 /\ formatted = "UTC+5"

\* This step is onMutate of the mutation that runs alone, of one of the kinds.
Mutates(kinds) == mut[1].pc = "idle" /\ mut'[1].pc = "pending" /\ mut'[1].kind \in kinds

\* This step is the last handler before onSettled of the mutation, of one of
\* the kinds, some request of which failed.
HandlesFailure(kinds) ==
    /\ mut[1].pc \in {"resolved", "rejected"} /\ mut'[1].pc = "settling"
    /\ mut[1].kind \in kinds /\ mut[1].failed > 0

\* This step is onSettled of the mutation, of one of the kinds.
Settles(kinds) ==
    mut[1].pc = "settling" /\ mut'[1].pc = "settled" /\ mut[1].kind \in kinds

\* The users of a cached list.
UsersIn(list) == {list.data[i] : i \in 1..Len(list.data)}

\* The list after shows the change a mutation asks for, made to the list
\* before: the new user added, the updates on the user named, the users
\* named gone; the other users are as they were.
Speculative(m, before, after) ==
    IF m.kind = "create"
    THEN /\ UsersIn(before) \subseteq UsersIn(after)
         /\ Len(after.data) = Len(before.data) + 1
         /\ \E user \in UsersIn(after) \ UsersIn(before) :
               user.name = m.variables.name /\ user.zipCode = m.variables.zipCode
    ELSE IF m.kind = "update"
    THEN /\ \A user \in UsersIn(before) :
               user.id # m.variables.id => user \in UsersIn(after)
         /\ \A user \in UsersIn(after) :
               user.id = m.variables.id
                  => \A f \in DOMAIN m.variables.updates :
                        user[f] = m.variables.updates[f]
         /\ {user.id : user \in UsersIn(after)} = {user.id : user \in UsersIn(before)}
    ELSE UsersIn(after) = {user \in UsersIn(before) : ~IncludesId(m.ids, user.id)}

\* onMutate of the kinds snapshots the cached list as it was and shows the
\* change in the cached list, before any request is sent.
SnapshotsAndApplies(kinds) ==
    Mutates(kinds)
       => /\ mut'[1].context.previousUsers = cache
          /\ cache # Undefined => Speculative(mut'[1], cache, cache')
          /\ \A r \in Requests : req'[r].pc = "idle"

\* A failure of a mutation of the kinds restores the snapshot.
RestoresSnapshot(kinds) ==
    HandlesFailure(kinds) => cache' = mut[1].context.previousUsers

\* Settling a mutation of the kinds invalidates the users query.
Invalidates(kinds) == Settles(kinds) => stale'

BulkReported == mut[1].pc = "reported" /\ mut[1].kind = "deleteMany"

\* C21: a bulk delete issues one delete call per id; when all have settled
\* the caller is told how many of them failed, so that a run with a failed
\* delete shows the warning 'Warning: <failed> of <total> deletions failed';
\* the users whose delete succeeded stay deleted.
C21_BulkDeleteReportsFailures ==
    BulkReported
       => LET ids == mut[1].ids
              total == Len(ids)
          IN  /\ \A i \in 1..total :
                    req[Slot(1, i)].pc # "idle"
                       => req[Slot(1, i)].op = "delete" /\ req[Slot(1, i)].id = ids[i]
              /\ mut[1].failed > 0
                    => mut[1].alert = "Warning: " \o ToString(mut[1].failed) \o " of "
                                         \o ToString(total) \o " deletions failed"
              /\ mut[1].failed = 0 => mut[1].alert = ""
              /\ \A i \in 1..total :
                    (req[Slot(1, i)].pc = "done" /\ Resolves(req[Slot(1, i)]))
                       => ids[i] \notin DOMAIN store

\* A create whose enrichment succeeded and whose store write then failed.
StoreWriteFailed(q) ==
    /\ q.op = "create" /\ q.pc = "done"
    /\ q.reply.kind = "ok" /\ q.out.kind = "threw"

\* C22: a create whose enrichment succeeded and whose store write then failed
\* is answered with a 5xx status, never with 400, whatever the wording of the
\* storage failure, and its error is not tagged as a client error.
C22_StoreFailureIsServerError ==
    \A r \in Requests :
        StoreWriteFailed(req[r])
           => /\ ~HasStatusCode(req[r].out.error)
              /\ \A mode \in NodeEnvs : Response(req[r], mode).status \in 500..599

\* The provider requests the requests of a run have issued so far.
RECURSIVE CallsUpTo(_, _)
CallsUpTo(rq, n) == IF n = 0 THEN 0 ELSE CallsUpTo(rq, n - 1) + rq[n].calls

\* The request has made its enrichment call: it awaits the provider or has
\* had its answer.
Enriching(q) == q.pc = "fetch" \/ q.reply.kind # "none"

\* C23: a call of fetchLocationData issues exactly one provider request when
\* its zip code is exactly 5 digits and none otherwise (isValidZipCode holds
\* of a 5-digit numeric string and of nothing else, empty and absent
\* included); a failed request is never retried and no earlier result is
\* reused: k operations that call for enrichment issue exactly k requests.
C23_OneProviderRequestPerCall ==
    [][/\ \A r \in Requests :
            LET q == req[r]
                q2 == req'[r]
            IN  /\ q2.calls = q.calls + (IF q.pc # "fetch" /\ q2.pc = "fetch" THEN 1 ELSE 0)
                /\ q2.pc = "fetch"
                      => Len(q2.zip) = 5 /\ \A i \in 1..5 : CharAt(q2.zip, i) \in Digits
                /\ (q.pc = "fetch" /\ q2.pc # "fetch")
                      => /\ q2.reply.kind # "none"
                         /\ q2.reply.kind # "ok" => q2.pc = "done" /\ q2.out.kind = "threw"
                /\ q2.pc = "done" => q2.calls = (IF Enriching(q2) THEN 1 ELSE 0)
                /\ (q2.pc = "done" /\ q2.op = "create")
                      => (Enriching(q2) <=> ValidCreateInput(q2))
                /\ (q2.pc = "done" /\ q2.op \in {"create", "update"}
                       /\ (Falsy(q2.body, "zipCode") \/ ~isValidZipCode(Trim(q2.body.zipCode))))
                      => q2.calls = 0
       /\ CallsUpTo(req', NumReq) = Cardinality({r \in Requests : Enriching(req'[r])})
      ]_vars

\* Two operations that called for enrichment have ended, one of them with a
\* failed provider request, and two provider requests have been issued.
C23_Witness ==
    \E r1, r2 \in Requests :
        /\ r1 # r2
        /\ req[r1].pc = "done" /\ req[r2].pc = "done"
        /\ req[r1].reply.kind \in {"response", "transport"}
        /\ req[r1].op = "update"
        /\ req[r2].reply.kind = "ok"
        /\ CallsUpTo(req, NumReq) = 2

(***************************************************************************)
(* C24.  What update and refresh-location write.                           *)
(***************************************************************************)
\* The request r performs the write of UserRepository.update in this step.
WritesUpdate(r) == req[r].pc = "write" /\ req'[r].pc = "updated"

LocationKeys == {"latitude", "longitude", "timezone", "timezoneOffset", "city"}

\* The value of key k in the record o, or that the record has no such key.
ValueAt(o, k) == IF Has(o, k) THEN <<o[k]>> ELSE <<>>

\* The keys whose value differs between the records before and after.
WrittenKeys(before, after) ==
    {k \in (DOMAIN before) \cup (DOMAIN after) :
        ValueAt(before, k) # ValueAt(after, k)}

\* The location in the record is what the provider can answer for zip.
LocationDerivedFrom(record, zip) ==
    \E d \in ProviderPayloads(zip) :
        \A k \in LocationKeys :
            ValueAt(record, k) = ValueAt(LocationFields(LocationData(d)), k)

\* What the write of an update may change in the record it finds: the name
\* to the payload's trimmed name, the zip code to the payload's trimmed zip
\* code together with the location of that zip code and its stamp, and
\* updatedAt.
UpdateFrame(q, before, after) ==
    LET written == WrittenKeys(before, after)
    IN  /\ written \subseteq
               {"name", "zipCode", "locationUpdatedAt", "updatedAt"}
                   \cup LocationKeys
        /\ "name" \in written =>
               Has(q.body, "name") /\ after.name = Trim(q.body.name)
        /\ "zipCode" \in written =>
               Has(q.body, "zipCode") /\ after.zipCode = Trim(q.body.zipCode)
        /\ written \cap (LocationKeys \cup {"locationUpdatedAt"}) # {} =>
               /\ Has(q.body, "zipCode")
               /\ after.zipCode = Trim(q.body.zipCode)
               /\ LocationDerivedFrom(after, after.zipCode)

\* What the write of a refresh may change: the location, taken from the
\* provider's answer for the record's zip code, its stamp, and updatedAt.
RefreshFrame(q, before, after) ==
    LET written == WrittenKeys(before, after)
    IN  /\ written \subseteq
               (LocationKeys \ {"city"}) \cup {"locationUpdatedAt", "updatedAt"}
        /\ \E d \in ProviderPayloads(q.zip) :
               \A k \in LocationKeys \ {"city"} :
                   ValueAt(after, k) = ValueAt(LocationFields(LocationData(d)), k)

\* C24: the write of an update or of a refresh-location request leaves the
\* record under its key with its createdAt and without an id of a payload,
\* and leaves every other record alone; an update changes only the name, the
\* zip code and the location fields of that zip code, so that no other key
\* of the payload (id, createdAt, latitude, city) is written; a refresh
\* changes only the location fields; both give updatedAt a new stamp.
C24_UpdateWritesOnlyItsFields ==
    [][\A r \in Requests :
          WritesUpdate(r) /\ req[r].id \in DOMAIN store =>
              LET id == req[r].id
                  before == store[id]
                  after == store'[id]
              IN  /\ DOMAIN store' = DOMAIN store
                  /\ \A k \in DOMAIN store \ {id} : store'[k] = store[k]
                  /\ ~Has(after, "id")
                  /\ ValueAt(after, "createdAt") = ValueAt(before, "createdAt")
                  /\ IF req[r].op = "update"
                     THEN UpdateFrame(req[r], before, after)
                     ELSE RefreshFrame(req[r], before, after)
                  /\ after.updatedAt = clock'
                  /\ after.updatedAt > before.updatedAt]_vars

\* An update whose payload carried id, createdAt, latitude and city has
\* written a record that existed.
C24_Witness ==
    /\ req[1].op = "update"
    /\ req[1].pc = "updated"
    /\ {"id", "createdAt", "latitude", "city"} \subseteq DOMAIN req[1].body
    /\ req[1].id \in DOMAIN store
    /\ Has(store[req[1].id], "createdAt")

(***************************************************************************)
(* C25.  A deleted record and the writes still in flight.                  *)
(***************************************************************************)
\* C25: once a delete of an id has been answered 200 the store holds no
\* record under that id, whatever update or refresh of that id was in
\* flight past its existence check when the record was removed (creates
\* take a key no record ever had, so none produces the id again).
C25_DeletedRecordStaysDeleted ==
    \A r \in Requests :
        DeletedBy(req[r]) => req[r].id \notin DOMAIN store

(***************************************************************************)
(* C26.  The data of a successful update or refresh.                       *)
(***************************************************************************)
\* C26: an update or refresh-location request that is answered 200 carries
\* data that is not null: when the record is gone at the repository's
\* existence check, after the service found it, the request is answered 404
\* and not a success without data.
C26_SuccessCarriesData ==
    \A r \in Requests :
        (req[r].op \in {"update", "refresh"} /\ req[r].pc = "done")
            => LET response == Response(req[r], nodeEnv)
               IN  response.status = 200 => response.body.data # Null

(***************************************************************************)
(* C27.  The location of a record and its zip code.                        *)
(***************************************************************************)
\* C27: with a provider whose answer is a function of the zip code, the
\* latitude, longitude, timezone and timezoneOffset of every stored record
\* are that answer for the record's current zipCode, however updates that
\* change the zip code and refreshes of the same id interleave.
C27_LocationMatchesZipCode ==
    \A id \in DOMAIN store :
        Has(store[id], "zipCode") =>
            \A k \in {"latitude", "longitude", "timezone", "timezoneOffset"} :
                /\ Has(store[id], k)
                /\ store[id][k] = LocationData(FixedPayload(store[id].zipCode))[k]

(***************************************************************************)
(* C28.  Two deletes of one record.                                        *)
(***************************************************************************)
\* C28: of two concurrent delete requests for the same existing id exactly
\* one is answered 200 with the record and the other 404: no two delete
\* requests for one id are both answered with the record.
C28_OneDeleteSucceeds ==
    \A r1, r2 \in Requests :
        (r1 # r2 /\ DeletedBy(req[r1]) /\ DeletedBy(req[r2]))
            => req[r1].id # req[r2].id

(***************************************************************************)
(* C29.  Rollback while another mutation is under way.                     *)
(***************************************************************************)
\* The mutation has run onMutate and has not failed: it is in flight or has
\* succeeded.
InFlightOrSucceeded(q) == q.pc # "idle" /\ q.failed = 0

\* The cached list shows the speculative change of the mutation: the user a
\* create asks for is in it, the user an update names carries the updates,
\* the user a delete names is not in it.
Shows(q, list) ==
    /\ list # Undefined
    /\ IF q.kind = "create"
       THEN \E user \in UsersIn(list) :
               user.name = q.variables.name /\ user.zipCode = q.variables.zipCode
       ELSE IF q.kind = "update"
       THEN \E user \in UsersIn(list) :
               /\ user.id = q.variables.id
               /\ \A f \in DOMAIN q.variables.updates :
                     Has(user, f) /\ user[f] = q.variables.updates[f]
       ELSE \A user \in UsersIn(list) : ~IncludesId(q.ids, user.id)

\* C29: when two mutations of the client overlap, the rollback of the one
\* that failed leaves in the cached list the speculative change of the other
\* one, which is still in flight or has succeeded: onError never restores a
\* snapshot that discards it.
C29_RollbackKeepsOtherMutation ==
    [][\A m, n \in Mutations :
          (/\ m # n
           /\ mut[m].pc = "rejected" /\ mut'[m].pc = "settling"
           /\ InFlightOrSucceeded(mut[n])
           /\ Shows(mut[n], cache))
              => Shows(mut[n], cache')]_vars

(***************************************************************************)
(* C30.  The count of the cached list.                                     *)
(***************************************************************************)
\* The list's count is the number of its entries.
CountMatches(list) == list.count = Len(list.data)

\* C30: the count of the cached list equals the number of entries in its
\* data after every optimistic create, single delete and bulk delete,
\* whatever ids are named: an id the list does not hold, an id deleted
\* before, a bulk selection with absent or repeated ids.
C30_CountMatchesData ==
    [][\A m \in Mutations :
          (/\ mut[m].pc = "idle" /\ mut'[m].pc = "pending"
           /\ mut'[m].kind \in {"create", "delete", "deleteMany"}
           /\ cache # Undefined
           /\ CountMatches(cache))
              => CountMatches(cache')]_vars

=============================================================================
